---------------------------- MODULE Spec2Model ----------------------------
(***************************************************************************)
(* A model of the Rusty-Raytracing path tracer: interval and AABB           *)
(* arithmetic, the primitive layer, the BVH, material scattering and the    *)
(* recursive integrator.                                                    *)
(*                                                                          *)
(* Numbers.  The program computes in f64.  The model computes on a grid of  *)
(* integers extended with +inf, -inf and NaN, with the IEEE-754 rules the   *)
(* code relies on (x/0 = +-inf, 0*inf = NaN, inf-inf = NaN, every           *)
(* comparison with NaN false).  Lengths are measured in units of 0.00005,   *)
(* so that the padding constant delta = 0.0001 of aabb.rs is 2 and its      *)
(* half is 1; ray parameters t are plain numbers.  Dimensionless unit       *)
(* quantities (normals, unit vectors, colours) are fixed-point with ONE     *)
(* standing for 1.0.  Square roots and quotients are rounded down to the    *)
(* grid.                                                                    *)
(***************************************************************************)
EXTENDS Integers, Sequences, FiniteSets, TLC

VARIABLES
    objects,    \* HittableList.objects: the primitives of the list, in insertion order
    bbox,       \* HittableList.bbox: the running union box of the list
    bvh,        \* <<>> or <<node>>: the BVHNode built from the list
    input,      \* the arguments drawn for the operation under study
    call,       \* the operation last performed, with its result
    depth,      \* Camera::ray_color: the depth argument of the active call
    hits,       \* Camera::ray_color: scene intersection tests made so far
    stack,      \* Camera::ray_color: the (emission, attenuation) of the suspended calls
    rc_pc,      \* Camera::ray_color: position of the active call
    camera,     \* Camera: the fields render reads and initialize writes
    out,        \* the lines printed to standard output
    scan,       \* Camera::render: position, and the pixel (i, j) of the loops
    samples     \* Camera::render: the state of each sample of the pixel

vars == <<objects, bbox, bvh, input, call, depth, hits, stack, rc_pc,
          camera, out, scan, samples>>

sceneVars == <<objects, bbox, bvh, input>>
colorVars == <<depth, hits, stack, rc_pc>>
renderVars == <<camera, out, scan, samples>>

---------------------------------------------------------------------------
(* f64 on the grid: finite integers strictly between the two infinities.   *)

INFINITY == 1000000
NEG_INFINITY == -INFINITY
NaN == 2000000

IsNaN(x) == x = NaN
IsInf(x) == x = INFINITY \/ x = NEG_INFINITY
IsFinite(x) == ~IsNaN(x) /\ ~IsInf(x)

\* IEEE comparisons: false as soon as one side is NaN
FLt(x, y) == ~IsNaN(x) /\ ~IsNaN(y) /\ x < y
FLe(x, y) == ~IsNaN(x) /\ ~IsNaN(y) /\ x <= y
FGt(x, y) == FLt(y, x)
FGe(x, y) == FLe(y, x)

FNeg(x) == IF IsNaN(x) THEN NaN ELSE -x

FAdd(x, y) ==
    IF IsNaN(x) \/ IsNaN(y) THEN NaN
    ELSE IF IsInf(x) /\ IsInf(y) THEN (IF x = y THEN x ELSE NaN)
    ELSE IF IsInf(x) THEN x
    ELSE IF IsInf(y) THEN y
    ELSE x + y

FSub(x, y) == FAdd(x, FNeg(y))

Sign(x) == IF x > 0 THEN 1 ELSE IF x < 0 THEN -1 ELSE 0

FMul(x, y) ==
    IF IsNaN(x) \/ IsNaN(y) THEN NaN
    ELSE IF IsInf(x) \/ IsInf(y)
         THEN (IF x = 0 \/ y = 0 THEN NaN ELSE Sign(x) * Sign(y) * INFINITY)
    ELSE x * y

\* 1.0 / d for a ray-direction component d in {-1, 0, 1}; 1.0 / 0.0 = +inf
FRecip(d) == IF d = 0 THEN INFINITY ELSE d

\* f64::min and f64::max: a NaN operand is ignored
FMin(x, y) == IF IsNaN(x) THEN y ELSE IF IsNaN(y) THEN x ELSE IF x <= y THEN x ELSE y
FMax(x, y) == IF IsNaN(x) THEN y ELSE IF IsNaN(y) THEN x ELSE IF x >= y THEN x ELSE y

\* the unit of the fixed-point numbers: unit vectors, colours, ratios
ONE == 100

\* x / y in f64, rounded down to the grid
FDiv(x, y) ==
    IF IsNaN(x) \/ IsNaN(y) THEN NaN
    ELSE IF y = 0 THEN (IF x = 0 THEN NaN ELSE Sign(x) * INFINITY)
    ELSE IF IsInf(x) THEN (IF IsInf(y) THEN NaN ELSE Sign(x) * Sign(y) * INFINITY)
    ELSE IF IsInf(y) THEN 0
    ELSE x \div y

\* a length ratio as a fixed-point number: (x / y) * ONE
Ratio(x, y) ==
    IF IsFinite(x) /\ IsFinite(y) /\ y # 0 THEN (x * ONE) \div y ELSE FDiv(x, y)

RECURSIVE SqrtFrom(_, _, _)
\* the largest k in lo..hi with k * k <= n
SqrtFrom(n, lo, hi) ==
    IF lo >= hi THEN lo
    ELSE LET mid == (lo + hi + 1) \div 2
         IN  IF mid * mid <= n THEN SqrtFrom(n, mid, hi) ELSE SqrtFrom(n, lo, mid - 1)

\* f64::sqrt of a number that is not negative, rounded down to the grid
Sqrt(n) == SqrtFrom(n, 0, IF n < 46340 THEN n ELSE 46340)

---------------------------------------------------------------------------
(* vec3.rs *)

Vec3(x, y, z) == [x |-> x, y |-> y, z |-> z]

\* Index<i32> for Vec3
Idx(v, n) == IF n = 0 THEN v.x ELSE IF n = 1 THEN v.y ELSE v.z

VAdd(a, b) == Vec3(FAdd(a.x, b.x), FAdd(a.y, b.y), FAdd(a.z, b.z))
VNeg(a) == Vec3(FNeg(a.x), FNeg(a.y), FNeg(a.z))
VSub(a, b) == VAdd(a, VNeg(b))
VScale(k, a) == Vec3(FMul(k, a.x), FMul(k, a.y), FMul(k, a.z))
dot(a, b) == FAdd(FAdd(FMul(a.x, b.x), FMul(a.y, b.y)), FMul(a.z, b.z))
length_squared(a) == dot(a, a)

\* Vec3::cross
cross(a, b) ==
    Vec3(FSub(FMul(a.y, b.z), FMul(a.z, b.y)),
         FSub(FMul(a.z, b.x), FMul(a.x, b.z)),
         FSub(FMul(a.x, b.y), FMul(a.y, b.x)))

\* Vec3::length
length(v) == Sqrt(length_squared(v))

\* Vec3::unit_vector: self / self.length()
unit_vector(v) == Vec3(Ratio(v.x, length(v)), Ratio(v.y, length(v)), Ratio(v.z, length(v)))

---------------------------------------------------------------------------
(* interval.rs *)

Interval(min, max) == [min |-> min, max |-> max]

size(i) == FSub(i.max, i.min)
contains(i, x) == FLe(i.min, x) /\ FLe(x, i.max)
surrounds(i, x) == FLt(i.min, x) /\ FLt(x, i.max)

expand(i, d) ==
    LET padding == d \div 2
    IN  Interval(FSub(i.min, padding), FAdd(i.max, padding))

IntervalFromBadMax(a, b) ==
    Interval(IF FLe(a.min, b.min) THEN a.min ELSE b.min,
             IF FLe(a.max, b.max) THEN a.max ELSE b.max)

\* impl From<(Interval, Interval)> for Interval
IntervalFrom(a, b) ==
    Interval(IF FLe(a.min, b.min) THEN a.min ELSE b.min,
             IF FGe(a.max, b.max) THEN a.max ELSE b.max)

IEmpty == Interval(INFINITY, NEG_INFINITY)
IUniverse == Interval(NEG_INFINITY, INFINITY)

\* impl Add<f64> for Interval
IntervalAdd(i, rhs) == Interval(FAdd(i.min, rhs), FAdd(i.max, rhs))

---------------------------------------------------------------------------
(* aabb.rs *)

delta == 2

AABB(x, y, z) == [x |-> x, y |-> y, z |-> z]

axis_interval(b, n) == IF n = 1 THEN b.y ELSE IF n = 2 THEN b.z ELSE b.x

pad_to_minimumsSkipZ(b) ==
    AABB(IF FLt(size(b.x), delta) THEN expand(b.x, delta) ELSE b.x,
         IF FLt(size(b.y), delta) THEN expand(b.y, delta) ELSE b.y,
         b.z)

pad_to_minimums(b) ==
    AABB(IF FLt(size(b.x), delta) THEN expand(b.x, delta) ELSE b.x,
         IF FLt(size(b.y), delta) THEN expand(b.y, delta) ELSE b.y,
         IF FLt(size(b.z), delta) THEN expand(b.z, delta) ELSE b.z)

\* AABB::new
AABBNew(x, y, z) == pad_to_minimums(AABB(x, y, z))

AABBFromPointsUnordered(a, b) ==
    pad_to_minimums(AABB(Interval(a.x, b.x), Interval(a.y, b.y), Interval(a.z, b.z)))

\* impl From<(Point3, Point3)> for AABB
AABBFromPoints(a, b) ==
    pad_to_minimums(
        AABB(IF FLe(a.x, b.x) THEN Interval(a.x, b.x) ELSE Interval(b.x, a.x),
             IF FLe(a.y, b.y) THEN Interval(a.y, b.y) ELSE Interval(b.y, a.y),
             IF FLe(a.z, b.z) THEN Interval(a.z, b.z) ELSE Interval(b.z, a.z)))

\* impl From<(AABB, AABB)> for AABB
AABBFromBoxes(box0, box1) ==
    AABB(IntervalFrom(box0.x, box1.x),
         IntervalFrom(box0.y, box1.y),
         IntervalFrom(box0.z, box1.z))

EMPTY == AABB(IEmpty, IEmpty, IEmpty)
UNIVERSE == AABB(IUniverse, IUniverse, IUniverse)

\* impl Add<Vec3> for AABB
AABBAdd(b, rhs) ==
    AABBNew(IntervalAdd(b.x, rhs.x), IntervalAdd(b.y, rhs.y), IntervalAdd(b.z, rhs.z))

longest_axisEarliest(b) ==
    IF FGe(size(b.x), size(b.y)) /\ FGe(size(b.x), size(b.z)) THEN 0
    ELSE IF FGe(size(b.y), size(b.z)) THEN 1
    ELSE 2

\* AABB::longest_axis
longest_axis(b) ==
    IF FGt(size(b.x), size(b.y)) /\ FGt(size(b.x), size(b.z)) THEN 0
    ELSE IF FGt(size(b.y), size(b.z)) THEN 1
    ELSE 2

\* one round of the loop of AABB::hit: the running interval after narrowing on `axis`
HitAxis(b, r, ray_t, axis) ==
    LET ax == axis_interval(b, axis)
        adinv == FRecip(Idx(r.dir, axis))
        t0 == FMul(FSub(ax.min, Idx(r.orig, axis)), adinv)
        t1 == FMul(FSub(ax.max, Idx(r.orig, axis)), adinv)
    IN  IF FLt(t0, t1)
        THEN Interval(IF FGt(t0, ray_t.min) THEN t0 ELSE ray_t.min,
                      IF FLt(t1, ray_t.max) THEN t1 ELSE ray_t.max)
        ELSE Interval(IF FGt(t1, ray_t.min) THEN t1 ELSE ray_t.min,
                      IF FLt(t0, ray_t.max) THEN t0 ELSE ray_t.max)

MissedStrict(ray_t) == FLt(ray_t.max, ray_t.min)

\* the running interval is empty: the early return of the loop
Missed(ray_t) == FLe(ray_t.max, ray_t.min)

\* AABB::hit
AABBHit(b, r, ray_t) ==
    LET t0 == HitAxis(b, r, ray_t, 0)
        t1 == HitAxis(b, r, t0, 1)
        t2 == HitAxis(b, r, t1, 2)
    IN  IF Missed(t0) THEN FALSE
        ELSE IF Missed(t1) THEN FALSE
        ELSE IF Missed(t2) THEN FALSE
        ELSE TRUE

---------------------------------------------------------------------------
(* ray.rs *)

Ray(origin, direction, t) == [orig |-> origin, dir |-> direction, tm |-> t]

\* Ray::at
At(r, t) == VAdd(r.orig, VScale(t, r.dir))

---------------------------------------------------------------------------
(* primitive.rs: the primitives are records tagged with their kind; an        *)
(* Option is a sequence of length 0 (None) or 1 (Some).                       *)

None == <<>>
Some(x) == <<x>>
IsSome(o) == Len(o) = 1
Unwrap(o) == o[1]

\* Sphere::new
SphereNew(center, radius, mat) ==
    [kind |-> "Sphere",
     center1 |-> center,
     radius |-> FMax(radius, 0),
     mat |-> mat,
     is_moving |-> FALSE,
     center_vec |-> Vec3(0, 0, 0),
     bbox |-> LET rvec == Vec3(radius, radius, radius)
              IN  AABBFromPoints(VSub(center, rvec), VAdd(center, rvec))]

\* Sphere::new_moving
SphereNewMoving(center1, center2, radius, mat) ==
    [kind |-> "Sphere",
     center1 |-> center1,
     radius |-> FMax(radius, 0),
     mat |-> mat,
     is_moving |-> TRUE,
     center_vec |-> VSub(center2, center1),
     bbox |-> LET rvec == Vec3(radius, radius, radius)
                  box1 == AABBFromPoints(VSub(center1, rvec), VAdd(center1, rvec))
                  box2 == AABBFromPoints(VSub(center2, rvec), VAdd(center2, rvec))
              IN  AABBFromBoxes(box1, box2)]

\* Sphere::sphere_center
sphere_center(s, time) == VAdd(s.center1, VScale(time, s.center_vec))

\* Sphere::get_sphere_uv: acos and atan2 of the normal, kept as a term
get_sphere_uv(p) == <<[fn |-> "phi / (2 PI)", of |-> p], [fn |-> "theta / PI", of |-> p]>>

RootFarFirst(h, sqrtd, a, ray_t) ==
    LET far == FDiv(h + sqrtd, a)
        near == FDiv(h - sqrtd, a)
    IN  IF surrounds(ray_t, far) THEN Some(far)
        ELSE IF surrounds(ray_t, near) THEN Some(near)
        ELSE None

RootNearOnly(h, sqrtd, a, ray_t) ==
    LET near == FDiv(h - sqrtd, a)
    IN  IF surrounds(ray_t, near) THEN Some(near) ELSE None

\* Sphere::hit, the choice of the root: the nearer one first
Root(h, sqrtd, a, ray_t) ==
    LET near == FDiv(h - sqrtd, a)
        far == FDiv(h + sqrtd, a)
    IN  IF surrounds(ray_t, near) THEN Some(near)
        ELSE IF surrounds(ray_t, far) THEN Some(far)
        ELSE None

\* impl Hittable for Sphere: hit
SphereHit(s, r, ray_t) ==
    LET center == IF s.is_moving THEN sphere_center(s, r.tm) ELSE s.center1
        oc == VSub(center, r.orig)
        a == length_squared(r.dir)
        h == dot(r.dir, oc)
        c == length_squared(oc) - s.radius * s.radius
        discriminant == h * h - a * c
    IN  IF discriminant < 0 THEN None
        ELSE LET root == Root(h, Sqrt(discriminant), a, ray_t)
             IN  IF ~IsSome(root) THEN None
                 ELSE LET t == Unwrap(root)
                          p == At(r, t)
                          pc == VSub(p, center)
                          outward == Vec3(Ratio(pc.x, s.radius), Ratio(pc.y, s.radius),
                                          Ratio(pc.z, s.radius))
                          front_face == FLt(dot(r.dir, outward), 0)
                          normal == IF front_face THEN outward ELSE VNeg(outward)
                      IN  Some([t |-> t, p |-> p, normal |-> normal, mat |-> s.mat,
                                front_face |-> front_face,
                                u |-> get_sphere_uv(normal)[1],
                                v |-> get_sphere_uv(normal)[2]])

\* HittableList::default
HittableListDefault == [kind |-> "HittableList", objects |-> <<>>, bbox |-> EMPTY]

ListAddNoUnion(l, object_bbox, object) ==
    [l EXCEPT !.bbox = object_bbox, !.objects = Append(@, object)]

\* HittableList::add; object_bbox is object.bounding_box()
ListAdd(l, object_bbox, object) ==
    [l EXCEPT !.bbox = AABBFromBoxes(l.bbox, object_bbox), !.objects = Append(@, object)]

\* HittableList::clear
ListClear(l) == [l EXCEPT !.objects = <<>>, !.bbox = EMPTY]

\* Planar::new with set_bounding_box; w = n / n.dot(n) is kept as the pair of
\* the vector n and the number n.dot(n)
PlanarNew(q, u, v, mat, shape) ==
    LET n == cross(u, v)
        normal == unit_vector(n)
    IN  [kind |-> "Planar", q |-> q, u |-> u, v |-> v,
         w |-> [num |-> n, den |-> dot(n, n)],
         mat |-> mat, shape |-> shape,
         normal |-> normal,
         d |-> dot(normal, q),
         bbox |-> LET bbox_diagonal1 == AABBFromPoints(q, VAdd(VAdd(q, u), v))
                      bbox_diagonal2 == AABBFromPoints(VAdd(q, u), VAdd(q, v))
                  IN  AABBFromBoxes(bbox_diagonal1, bbox_diagonal2)]

\* w.dot(x) as a fixed-point number
WDot(w, x) == Ratio(dot(w.num, x), w.den)

InShapeOpen(shape, alpha, beta) ==
    CASE shape.kind = "Quad" ->
            FGt(alpha, 0) /\ FLt(alpha, ONE) /\ FGt(beta, 0) /\ FLt(beta, ONE)
      [] shape.kind = "Circle" ->
            FLt(Sqrt(alpha * alpha + beta * beta), shape.radius)
      [] shape.kind = "Triangle" ->
            FGt(alpha, 0) /\ FGt(beta, 0) /\ FLt(FAdd(alpha, beta), ONE)

\* Planar::hit, the match on the shape: the hit point (alpha, beta) is inside
InShape(shape, alpha, beta) ==
    CASE shape.kind = "Quad" ->
            LET unit_interval == Interval(0, ONE)
            IN  contains(unit_interval, alpha) /\ contains(unit_interval, beta)
      [] shape.kind = "Circle" ->
            ~FGt(Sqrt(alpha * alpha + beta * beta), shape.radius)
      [] shape.kind = "Triangle" ->
            FGt(alpha, 0) /\ FGt(beta, 0) /\ FLt(FAdd(alpha, beta), ONE)

\* impl Hittable for Planar: hit; |denom| < 1e-8 is denom = 0 on the grid
PlanarHit(pl, r, ray_t) ==
    LET denom == dot(pl.normal, r.dir)
    IN  IF denom = 0 THEN None
        ELSE LET t == FDiv(FSub(pl.d, dot(pl.normal, r.orig)), denom)
             IN  IF ~contains(ray_t, t) THEN None
                 ELSE LET intersection == At(r, t)
                          planar_hitpt_vector == VSub(intersection, pl.q)
                          alpha == WDot(pl.w, cross(planar_hitpt_vector, pl.v))
                          beta == WDot(pl.w, cross(pl.u, planar_hitpt_vector))
                      IN  IF ~InShape(pl.shape, alpha, beta) THEN None
                          ELSE LET front_face == FLt(dot(r.dir, pl.normal), 0)
                                   normal == IF front_face THEN pl.normal
                                             ELSE VNeg(pl.normal)
                               IN  Some([t |-> t, p |-> intersection, normal |-> normal,
                                         mat |-> pl.mat, front_face |-> front_face,
                                         u |-> alpha, v |-> beta])

RECURSIVE bounding_box(_)
\* Hittable::bounding_box: the stored box, or the boundary's for a ConstantMedium
bounding_box(p) ==
    IF p.kind = "ConstantMedium" THEN bounding_box(p.boundary) ELSE p.bbox

\* Translate::new
TranslateNew(object, offset) ==
    [kind |-> "Translate", object |-> object, offset |-> offset,
     bbox |-> AABBAdd(bounding_box(object), offset)]

\* sin and cos of degrees_to_radians(angle), for the multiples of 90 degrees
SinDeg(angle) == LET q == (angle \div 90) % 4
                 IN  IF q = 1 THEN 1 ELSE IF q = 3 THEN -1 ELSE 0
CosDeg(angle) == LET q == (angle \div 90) % 4
                 IN  IF q = 0 THEN 1 ELSE IF q = 2 THEN -1 ELSE 0

\* RotateY::new, the loop body: the rotated corner (i, j, k) of the inner box
Tester(b, sin_theta, cos_theta, i, j, k) ==
    LET x == FAdd(FMul(i, b.x.max), FMul(1 - i, b.x.min))
        y == FAdd(FMul(j, b.y.max), FMul(1 - j, b.y.min))
        z == FAdd(FMul(k, b.z.max), FMul(1 - k, b.z.min))
        newx == FAdd(FMul(cos_theta, x), FMul(sin_theta, z))
        newz == FAdd(FMul(FNeg(sin_theta), x), FMul(cos_theta, z))
    IN  Vec3(newx, y, newz)

Testers(b, sin_theta, cos_theta) ==
    [n \in 1..8 |-> Tester(b, sin_theta, cos_theta,
                           (n - 1) \div 4, ((n - 1) \div 2) % 2, (n - 1) % 2)]

RECURSIVE MinOver(_, _, _, _)
MinOver(ts, c, n, acc) ==
    IF n > Len(ts) THEN acc ELSE MinOver(ts, c, n + 1, FMin(acc, Idx(ts[n], c)))

RECURSIVE MaxOver(_, _, _, _)
MaxOver(ts, c, n, acc) ==
    IF n > Len(ts) THEN acc ELSE MaxOver(ts, c, n + 1, FMax(acc, Idx(ts[n], c)))

\* RotateY::new
RotateYNew(object, angle) ==
    LET sin_theta == SinDeg(angle)
        cos_theta == CosDeg(angle)
        ts == Testers(bounding_box(object), sin_theta, cos_theta)
        min == Vec3(MinOver(ts, 0, 1, INFINITY), MinOver(ts, 1, 1, INFINITY),
                    MinOver(ts, 2, 1, INFINITY))
        max == Vec3(MaxOver(ts, 0, 1, NEG_INFINITY), MaxOver(ts, 1, 1, NEG_INFINITY),
                    MaxOver(ts, 2, 1, NEG_INFINITY))
    IN  [kind |-> "RotateY", object |-> object,
         sin_theta |-> sin_theta, cos_theta |-> cos_theta,
         bbox |-> AABBFromPoints(min, max)]

\* ConstantMedium::new; neg_inv_density = -1.0 / density is a fixed-point number
ConstantMediumNew(boundary, density, tex) ==
    [kind |-> "ConstantMedium", boundary |-> boundary, density |-> density,
     neg_inv_density |-> Ratio(-1, density),
     phase_function |-> [kind |-> "Isotropic", tex |-> tex]]

---------------------------------------------------------------------------
(* bvh.rs *)

\* BVHNode::box_compare: f64::total_cmp of the two boxes' minimum on the axis
box_compare(a, b, axis_index) ==
    LET a_min == axis_interval(bounding_box(a), axis_index).min
        b_min == axis_interval(bounding_box(b), axis_index).min
    IN  IF a_min < b_min THEN "Less" ELSE IF a_min > b_min THEN "Greater" ELSE "Equal"

\* the sorted sequence with x inserted after every element that is not greater
Insert(x, sorted, axis) ==
    LET n == Cardinality({i \in 1..Len(sorted) : box_compare(sorted[i], x, axis) # "Greater"})
    IN  SubSeq(sorted, 1, n) \o <<x>> \o SubSeq(sorted, n + 1, Len(sorted))

SortByUnsorted(s, axis) == s

RECURSIVE SortBy(_, _)
\* slice::sort_by with the axis comparator: a stable sort
SortBy(s, axis) ==
    IF Len(s) <= 1 THEN s
    ELSE Insert(s[Len(s)], SortBy(SubSeq(s, 1, Len(s) - 1), axis), axis)

\* objects[start..end].sort_by(comparator), in place; start and end count from 0
SortRange(objs, start, end, axis) ==
    SubSeq(objs, 1, start) \o SortBy(SubSeq(objs, start + 1, end), axis)
        \o SubSeq(objs, end + 1, Len(objs))

RECURSIVE FoldBoxSkipLast(_, _, _, _)
FoldBoxSkipLast(objs, start, end, acc) ==
    IF start + 1 >= end THEN acc
    ELSE FoldBoxSkipLast(objs, start + 1, end,
                         AABBFromBoxes(acc, bounding_box(objs[start + 1])))

RECURSIVE FoldBox(_, _, _, _)
\* objects[start..end].iter().fold(acc, |bbox, object| AABB::from((bbox, object.bounding_box())))
FoldBox(objs, start, end, acc) ==
    IF start >= end THEN acc
    ELSE FoldBox(objs, start + 1, end, AABBFromBoxes(acc, bounding_box(objs[start + 1])))

LeafBoth(object, box) ==
    [kind |-> "BVHNode",
     left |-> Some([kind |-> "BVHNode", left |-> None, right |-> None,
                    object |-> Some(object), bbox |-> box]),
     right |-> Some([kind |-> "BVHNode", left |-> None, right |-> None,
                     object |-> Some(object), bbox |-> box]),
     object |-> Some(object), bbox |-> box]

\* BVHNode::new, object_span = 1
Leaf(object, box) ==
    [kind |-> "BVHNode", left |-> None, right |-> None, object |-> Some(object), bbox |-> box]

\* BVHNode::new, the node of a span other than 1
Internal(left, right, box) ==
    [kind |-> "BVHNode", left |-> Some(left), right |-> Some(right), object |-> None,
     bbox |-> box]

RECURSIVE BVHNew(_, _, _)
\* BVHNode::new on a span of at least one object: the node and the array as the
\* sorts left it
BVHNew(objs, start, end) ==
    LET box == FoldBox(objs, start, end, EMPTY)
        axis == longest_axis(box)
        object_span == end - start
    IN  IF object_span = 1
        THEN [node |-> Leaf(objs[start + 1], box), objects |-> objs]
        ELSE LET sorted == SortRange(objs, start, end, axis)
                 mid == start + object_span \div 2
                 left == BVHNew(sorted, start, mid)
                 right == BVHNew(left.objects, mid, end)
             IN  [node |-> Internal(left.node, right.node, box),
                  objects |-> right.objects]

\* impl From<HittableList> for BVHNode
BVHFrom(list) == BVHNew(list.objects, 0, Len(list.objects)).node

RECURSIVE BVHDepth(_, _)
\* BVHNode::depth
BVHDepth(n, curr_depth) ==
    IF IsSome(n.left) /\ IsSome(n.right)
    THEN LET l == BVHDepth(Unwrap(n.left), curr_depth + 1)
             r == BVHDepth(Unwrap(n.right), curr_depth + 1)
         IN  IF l >= r THEN l ELSE r
    ELSE curr_depth

RECURSIVE Hit(_, _, _, _)

RECURSIVE ListFoldWide(_, _, _, _, _, _, _)
ListFoldWide(objs, n, r, ray_t, ln_u, closest, curr_rec) ==
    IF n > Len(objs) THEN curr_rec
    ELSE LET temp_rec == Hit(objs[n], r, Interval(ray_t.min, ray_t.max), ln_u)
         IN  IF IsSome(temp_rec)
             THEN ListFoldWide(objs, n + 1, r, ray_t, ln_u, Unwrap(temp_rec).t, temp_rec)
             ELSE ListFoldWide(objs, n + 1, r, ray_t, ln_u, closest, curr_rec)

\* impl Hittable for HittableList: hit, the fold from the n-th object on
RECURSIVE ListFold(_, _, _, _, _, _, _)
ListFold(objs, n, r, ray_t, ln_u, closest, curr_rec) ==
    IF n > Len(objs) THEN curr_rec
    ELSE LET temp_rec == Hit(objs[n], r, Interval(ray_t.min, closest), ln_u)
         IN  IF IsSome(temp_rec)
             THEN ListFold(objs, n + 1, r, ray_t, ln_u, Unwrap(temp_rec).t, temp_rec)
             ELSE ListFold(objs, n + 1, r, ray_t, ln_u, closest, curr_rec)

ListHit(l, r, ray_t, ln_u) == ListFold(l.objects, 1, r, ray_t, ln_u, ray_t.max, None)

\* impl Hittable for BVHNode: hit
BVHHit(n, r, ray_t, ln_u) ==
    IF ~AABBHit(n.bbox, r, ray_t) THEN None
    ELSE IF IsSome(n.left) /\ IsSome(n.right)
    THEN LET left_hit == Hit(Unwrap(n.left), r, ray_t, ln_u)
         IN  IF IsSome(left_hit)
             THEN LET right_hit == Hit(Unwrap(n.right), r,
                                       Interval(ray_t.min, Unwrap(left_hit).t), ln_u)
                  IN  IF IsSome(right_hit) THEN right_hit ELSE left_hit
             ELSE Hit(Unwrap(n.right), r, ray_t, ln_u)
    ELSE Hit(Unwrap(n.object), r, ray_t, ln_u)

TranslateHitUnbounded(tr, r, ray_t, ln_u) ==
    LET offset_r == Ray(VSub(r.orig, tr.offset), r.dir, r.tm)
        hit == Hit(tr.object, offset_r, IUniverse, ln_u)
    IN  IF IsSome(hit)
        THEN Some([Unwrap(hit) EXCEPT !.p = VAdd(Unwrap(hit).p, tr.offset)])
        ELSE None

\* impl Hittable for Translate: hit
TranslateHit(tr, r, ray_t, ln_u) ==
    LET offset_r == Ray(VSub(r.orig, tr.offset), r.dir, r.tm)
        hit == Hit(tr.object, offset_r, ray_t, ln_u)
    IN  IF IsSome(hit)
        THEN Some([Unwrap(hit) EXCEPT !.p = VAdd(Unwrap(hit).p, tr.offset)])
        ELSE None

\* impl Hittable for RotateY: hit
RotateYHit(ro, r, ray_t, ln_u) ==
    LET origin == Vec3(FSub(FMul(ro.cos_theta, r.orig.x), FMul(ro.sin_theta, r.orig.z)),
                       r.orig.y,
                       FAdd(FMul(ro.sin_theta, r.orig.x), FMul(ro.cos_theta, r.orig.z)))
        direction == Vec3(FSub(FMul(ro.cos_theta, r.dir.x), FMul(ro.sin_theta, r.dir.z)),
                          r.dir.y,
                          FAdd(FMul(ro.sin_theta, r.dir.x), FMul(ro.cos_theta, r.dir.z)))
        rotated_r == Ray(origin, direction, r.tm)
        hit == Hit(ro.object, rotated_r, ray_t, ln_u)
    IN  IF IsSome(hit)
        THEN LET rec == Unwrap(hit)
                 p == Vec3(FAdd(FMul(ro.cos_theta, rec.p.x), FMul(ro.sin_theta, rec.p.z)),
                           rec.p.y,
                           FAdd(FMul(FNeg(ro.sin_theta), rec.p.x),
                                FMul(ro.cos_theta, rec.p.z)))
                 normal == Vec3(FAdd(FMul(ro.cos_theta, rec.normal.x),
                                     FMul(ro.sin_theta, rec.normal.z)),
                                rec.normal.y,
                                FAdd(FMul(FNeg(ro.sin_theta), rec.normal.x),
                                     FMul(ro.cos_theta, rec.normal.z)))
             IN  Some([rec EXCEPT !.p = p, !.normal = normal])
        ELSE None

HitDistanceZero(m, ln_u) == 0

\* ConstantMedium::hit: hit_distance = self.neg_inv_density * random_double().ln()
HitDistance(m, ln_u) == FDiv(FMul(m.neg_inv_density, ln_u), ONE)

\* impl Hittable for ConstantMedium: hit; ln_u is what random_double().ln() returns,
\* and 0.0001 is the number delta
ConstantMediumHit(m, r, ray_t, ln_u) ==
    LET hit1 == Hit(m.boundary, r, IUniverse, ln_u)
    IN  IF ~IsSome(hit1) THEN None
        ELSE LET rec1 == Unwrap(hit1)
                 hit2 == Hit(m.boundary, r, Interval(FAdd(rec1.t, delta), INFINITY), ln_u)
             IN  IF ~IsSome(hit2) THEN None
                 ELSE LET rec2 == Unwrap(hit2)
                          t1 == IF FLt(rec1.t, ray_t.min) THEN ray_t.min ELSE rec1.t
                          t2 == IF FGt(rec2.t, ray_t.max) THEN ray_t.max ELSE rec2.t
                      IN  IF FGe(t1, t2) THEN None
                          ELSE LET entry == IF FLt(t1, 0) THEN 0 ELSE t1
                                   ray_length == length(r.dir)
                                   distance_inside_boundary ==
                                       FMul(FSub(t2, entry), ray_length)
                                   hit_distance == HitDistance(m, ln_u)
                               IN  IF FGt(hit_distance, distance_inside_boundary) THEN None
                                   ELSE LET t == FAdd(entry, FDiv(hit_distance, ray_length))
                                        IN  Some([t |-> t, p |-> At(r, t),
                                                  normal |-> Vec3(ONE, 0, 0),
                                                  mat |-> m.phase_function,
                                                  front_face |-> TRUE,
                                                  u |-> rec2.u, v |-> rec2.v])

\* Hittable::hit, dispatched on the kind of the primitive
Hit(p, r, ray_t, ln_u) ==
    CASE p.kind = "Sphere" -> SphereHit(p, r, ray_t)
      [] p.kind = "Planar" -> PlanarHit(p, r, ray_t)
      [] p.kind = "Translate" -> TranslateHit(p, r, ray_t, ln_u)
      [] p.kind = "RotateY" -> RotateYHit(p, r, ray_t, ln_u)
      [] p.kind = "ConstantMedium" -> ConstantMediumHit(p, r, ray_t, ln_u)
      [] p.kind = "HittableList" -> ListHit(p, r, ray_t, ln_u)
      [] p.kind = "BVHNode" -> BVHHit(p, r, ray_t, ln_u)

---------------------------------------------------------------------------
(* Scene setup, BVH construction and ray queries: the lifecycle of main.rs,   *)
(* a HittableList filled with add, BVHNode::from, then hit on both.           *)

MaxObjects == 3

SphereCenters == {Vec3(0, 0, 0), Vec3(3, 0, 0), Vec3(-2, 1, -3)}
SphereRadii == {1, 2}

RayOrigins == {Vec3(-1, 0, 5), Vec3(0, 0, 5), Vec3(3, 1, 5), Vec3(6, 0, 4)}
RayDirections == {Vec3(0, 0, -1), Vec3(-1, 0, -1)}
RayIntervals == {Interval(0, INFINITY), Interval(0, 5)}
Rays == {Ray(orig, dir, 0) : orig \in RayOrigins, dir \in RayDirections}

\* the world as a HittableList value
World == [kind |-> "HittableList", objects |-> objects, bbox |-> bbox]

ColorInit == depth = 0 /\ hits = 0 /\ stack = <<>> /\ rc_pc = "idle"

\* impl Default for Camera, the fields render reads; render has not been called
CameraDefault ==
    [image_width |-> 100, aspect_ratio |-> ONE, samples_per_pixel |-> 10, max_depth |-> 10,
     image_height |-> 0, pixel_samples_scale |-> 0]

RenderInit ==
    /\ camera = CameraDefault
    /\ out = <<>>
    /\ scan = [pc |-> "idle", i |-> 0, j |-> 0]
    /\ samples = <<>>

InitScene ==
    /\ objects = HittableListDefault.objects
    /\ bbox = HittableListDefault.bbox
    /\ bvh = None
    /\ input \in {[r |-> r, ray_t |-> ray_t] : r \in Rays, ray_t \in RayIntervals}
    /\ call = [op |-> "default"]
    /\ ColorInit
    /\ RenderInit

\* world.add(Arc::new(Sphere::new(center, radius, mat))); every sphere gets a
\* material of its own
AddSphere ==
    \E center \in SphereCenters, radius \in SphereRadii :
        /\ bvh = None
        /\ Len(objects) < MaxObjects
        /\ LET s == SphereNew(center, radius, Len(objects) + 1)
               l == ListAdd(World, bounding_box(s), s)
           IN  /\ objects' = l.objects
               /\ bbox' = l.bbox
        /\ call' = [op |-> "add"]
        /\ UNCHANGED <<bvh, input, colorVars, renderVars>>

\* world = HittableList::new(Arc::new(Sphere::new(..)))
NewWorld ==
    \E center \in SphereCenters, radius \in SphereRadii :
        /\ bvh = None
        /\ LET s == SphereNew(center, radius, 1)
               l == ListAdd(HittableListDefault, bounding_box(s), s)
           IN  /\ objects' = l.objects
               /\ bbox' = l.bbox
        /\ call' = [op |-> "new"]
        /\ UNCHANGED <<bvh, input, colorVars, renderVars>>

\* world.clear()
ClearWorld ==
    /\ bvh = None
    /\ Len(objects) > 0
    /\ LET l == ListClear(World)
       IN  /\ objects' = l.objects
           /\ bbox' = l.bbox
    /\ call' = [op |-> "clear"]
    /\ UNCHANGED <<bvh, input, colorVars, renderVars>>

\* BVHNode::from(world)
BuildBVH ==
    /\ bvh = None
    /\ Len(objects) >= 1
    /\ bvh' = Some(BVHFrom(World))
    /\ call' = [op |-> "from"]
    /\ UNCHANGED <<objects, bbox, input, colorVars, renderVars>>

\* world.hit(r, ray_t) on the list and on the BVH built from it
CastRay ==
    /\ bvh # None
    /\ call' = [op |-> "hit",
                list_rec |-> Hit(World, input.r, input.ray_t, 0),
                bvh_rec |-> Hit(Unwrap(bvh), input.r, input.ray_t, 0)]
    /\ UNCHANGED <<sceneVars, colorVars, renderVars>>

\* bvh.depth(0)
CallDepth ==
    /\ bvh # None
    /\ call' = [op |-> "depth", ret |-> BVHDepth(Unwrap(bvh), 0)]
    /\ UNCHANGED <<sceneVars, colorVars, renderVars>>

\* bvh.bounding_box()
CallBoundingBox ==
    /\ bvh # None
    /\ call' = [op |-> "bounding_box", ret |-> bounding_box(Unwrap(bvh))]
    /\ UNCHANGED <<sceneVars, colorVars, renderVars>>

NextScene ==
    \/ AddSphere \/ NewWorld \/ ClearWorld
    \/ BuildBVH \/ CastRay \/ CallDepth \/ CallBoundingBox

SpecScene == InitScene /\ [][NextScene]_vars

RECURSIVE Nodes(_)
\* the nodes reachable from n, n included
Nodes(n) ==
    {n} \cup (IF IsSome(n.left) THEN Nodes(Unwrap(n.left)) ELSE {})
        \cup (IF IsSome(n.right) THEN Nodes(Unwrap(n.right)) ELSE {})

\* C1: on every ray and interval, the BVH built from the list reports a hit
\* exactly when the list's linear scan does, with the same t and the same
\* primitive (every primitive has its own material).
BVHEquivalence ==
    call.op = "hit" =>
        /\ IsSome(call.bvh_rec) <=> IsSome(call.list_rec)
        /\ IsSome(call.list_rec) /\ IsSome(call.bvh_rec) =>
              /\ Unwrap(call.bvh_rec).t = Unwrap(call.list_rec).t
              /\ Unwrap(call.bvh_rec).mat = Unwrap(call.list_rec).mat

IsInternal(n) == IsSome(n.left) /\ IsSome(n.right) /\ ~IsSome(n.object)
IsLeaf(n) == IsSome(n.object) /\ ~IsSome(n.left) /\ ~IsSome(n.right)

\* C2: every node of a built tree is internal (two children, no object) or a
\* leaf (an object, no child).
NodeShape ==
    bvh # None => \A n \in Nodes(Unwrap(bvh)) : IsInternal(n) \/ IsLeaf(n)

\* a tree with an internal node below the root has been built
NodeShapeWitness ==
    /\ bvh # None
    /\ \E n \in Nodes(Unwrap(bvh)) : IsInternal(n) /\ n # Unwrap(bvh)
    /\ \E n \in Nodes(Unwrap(bvh)) : IsLeaf(n)

NodeBoxes ==
    bvh # None =>
        \A n \in Nodes(Unwrap(bvh)) :
            /\ IsInternal(n) =>
                  n.bbox = AABBFromBoxes(Unwrap(n.left).bbox, Unwrap(n.right).bbox)
            /\ IsLeaf(n) => n.bbox = bounding_box(Unwrap(n.object))

\* C3: a node's box is the union of its children's boxes, or its primitive's
\* box at a leaf, and once the tree is built no step (hit, depth,
\* bounding_box) changes it.
NodeBoxesFixed == []NodeBoxes /\ [][bvh # None => bvh' = bvh]_vars

\* a three-object tree has been queried
NodeBoxesWitness ==
    /\ bvh # None
    /\ Len(objects) = 3
    /\ call.op = "hit"
    /\ IsSome(call.bvh_rec)

---------------------------------------------------------------------------
(* Interval and AABB construction as operations on drawn arguments.          *)

MaxCoord == 2

Coords == (0 - MaxCoord)..MaxCoord
Bounds == Coords \cup {INFINITY, NEG_INFINITY}
Intervals == {Interval(lo, hi) : lo \in Bounds, hi \in Bounds}
Points == {Vec3(x, y, z) : x \in Coords, y \in Coords, z \in Coords}

\* boxes, rays and intervals for AABB::hit; a component of the direction is
\* -1, 0 or 1
HitCorners == {<<Vec3(0, 0, 0), Vec3(2, 2, 2)>>, <<Vec3(1, -2, 0), Vec3(-1, 2, 0)>>}
HitOrigins == {Vec3(-1, 1, 1), Vec3(1, 1, 1), Vec3(-1, -1, -1), Vec3(0, 1, 4), Vec3(3, 0, 0)}
HitDirections ==
    {Vec3(x, y, z) : x \in {-1, 0, 1}, y \in {-1, 0, 1}, z \in {-1, 0, 1}} \ {Vec3(0, 0, 0)}
HitIntervals == {Interval(0, INFINITY), Interval(0, 1), Interval(2, 1)}

InitBox ==
    /\ objects = <<>>
    /\ bbox = EMPTY
    /\ bvh = None
    /\ input \in {[fn |-> "Interval::from", a |-> a, b |-> b] : a \in Intervals, b \in Intervals}
                 \cup {[fn |-> "AABB::from", a |-> a, b |-> b] : a \in Points, b \in Points}
                 \cup {[fn |-> "AABB::hit", a |-> c[1], b |-> c[2], orig |-> o, dir |-> d,
                        ray_t |-> i] :
                          c \in HitCorners, o \in HitOrigins, d \in HitDirections,
                          i \in HitIntervals}
    /\ call = [op |-> "default"]
    /\ ColorInit
    /\ RenderInit

\* Interval::from((a, b))
UnionIntervals ==
    /\ input.fn = "Interval::from"
    /\ call' = [op |-> "Interval::from", ret |-> IntervalFrom(input.a, input.b)]
    /\ UNCHANGED <<sceneVars, colorVars, renderVars>>

\* AABB::from((a, b))
BoxFromPoints ==
    /\ input.fn = "AABB::from"
    /\ call' = [op |-> "AABB::from", ret |-> AABBFromPoints(input.a, input.b)]
    /\ UNCHANGED <<sceneVars, colorVars, renderVars>>

\* box.longest_axis() on the box just built
CallLongestAxis ==
    /\ call.op = "AABB::from"
    /\ call' = [op |-> "longest_axis", box |-> call.ret, ret |-> longest_axis(call.ret)]
    /\ UNCHANGED <<sceneVars, colorVars, renderVars>>

\* box.hit(&r, ray_t): the call, with the copy of the caller's interval
BoxHitCall ==
    /\ input.fn = "AABB::hit"
    /\ call.op = "default"
    /\ call' = [op |-> "AABB::hit", box |-> AABBFromPoints(input.a, input.b),
                axis |-> 0, ray_t |-> input.ray_t, ret |-> None]
    /\ UNCHANGED <<sceneVars, colorVars, renderVars>>

\* AABB::hit: one round of the loop, and the return when it is the last
BoxHitAxis ==
    /\ call.op = "AABB::hit"
    /\ call.ret = None
    /\ LET narrowed == HitAxis(call.box, Ray(input.orig, input.dir, 0), call.ray_t, call.axis)
       IN  call' = [call EXCEPT
                       !.ray_t = narrowed,
                       !.axis = IF Missed(narrowed) \/ call.axis = 2 THEN call.axis
                                ELSE call.axis + 1,
                       !.ret = IF Missed(narrowed) THEN Some(FALSE)
                               ELSE IF call.axis = 2 THEN Some(TRUE)
                               ELSE None]
    /\ UNCHANGED <<sceneVars, colorVars, renderVars>>

NextBox == UnionIntervals \/ BoxFromPoints \/ CallLongestAxis \/ BoxHitCall \/ BoxHitAxis

SpecBox == InitBox /\ [][NextBox]_vars

\* C4: the union of A and B contains every x that A or B contains, and the
\* union of EMPTY with A, in either order, is A.
UnionContains ==
    call.op = "Interval::from" =>
        /\ \A x \in Bounds \cup {0 - MaxCoord - 1, MaxCoord + 1} :
              contains(input.a, x) \/ contains(input.b, x) => contains(call.ret, x)
        /\ input.a = IEmpty => call.ret = input.b
        /\ input.b = IEmpty => call.ret = input.a

\* two overlapping finite intervals, neither inside the other, have been united
UnionContainsWitness ==
    /\ call.op = "Interval::from"
    /\ IsFinite(input.a.min) /\ IsFinite(input.b.max)
    /\ input.a.min < input.b.min /\ input.b.min < input.a.max /\ input.a.max < input.b.max

AbsDiff(x, y) == IF x >= y THEN x - y ELSE y - x

\* C5: a box built from two corners has size >= delta (0.0001) on every axis,
\* and an axis whose extent is already >= delta is exactly [min(a,b), max(a,b)].
PaddedBox ==
    call.op = "AABB::from" =>
        \A n \in 0..2 :
            LET ax == axis_interval(call.ret, n)
                an == Idx(input.a, n)
                bn == Idx(input.b, n)
            IN  /\ size(ax) >= delta
                /\ AbsDiff(an, bn) >= delta =>
                      ax = Interval(FMin(an, bn), FMax(an, bn))

\* corners that coincide on all three axes, and corners that coincide on z only
PaddedBoxWitness ==
    /\ call.op = "AABB::from"
    /\ input.a.z = input.b.z
    /\ input.a.x - input.b.x >= delta
    /\ input.b.y - input.a.y = 1
    /\ size(call.ret.z) = delta

---------------------------------------------------------------------------
(* Construction of the primitives: one base primitive (a sphere, a moving    *)
(* sphere or a planar shape, its arguments drawn at the start), lists of it, *)
(* the BVH of the list, and the decorators around any of them.               *)

MaxNest == 2

BaseArguments ==
    {[fn |-> "Sphere::new", center |-> c, radius |-> r] :
        c \in {Vec3(0, 0, 0), Vec3(-2, 1, 3)}, r \in {-1, 0, 1, 2}}
    \cup {[fn |-> "Sphere::new_moving", center |-> Vec3(0, 0, 0), center2 |-> c2, radius |-> r] :
        c2 \in {Vec3(0, 0, 0), Vec3(3, -1, 0)}, r \in {0, 1}}
    \cup {[fn |-> "Planar::new", q |-> q, u |-> u, v |-> v, shape |-> sh] :
        q \in {Vec3(0, 0, 0), Vec3(1, -2, 0)},
        u \in {Vec3(2, 0, 0), Vec3(-3, 0, 1)},
        v \in {Vec3(0, 2, 0), Vec3(0, -1, -1)},
        sh \in {[kind |-> "Quad"], [kind |-> "Triangle"], [kind |-> "Circle", radius |-> 1]}}

Offsets == {Vec3(1, 0, -2)}
Angles == {90, 180}

RECURSIVE Nest(_)
\* how many containers and decorators are nested in p
Nest(p) ==
    IF p.kind \in {"Sphere", "Planar"} THEN 0
    ELSE IF p.kind \in {"Translate", "RotateY"} THEN 1 + Nest(p.object)
    ELSE IF p.kind = "ConstantMedium" THEN 1 + Nest(p.boundary)
    ELSE 1

RECURSIVE HasEmptyList(_)
\* p is, or wraps, a HittableList with no objects
HasEmptyList(p) ==
    IF p.kind = "HittableList"
    THEN Len(p.objects) = 0 \/ \E i \in 1..Len(p.objects) : HasEmptyList(p.objects[i])
    ELSE IF p.kind \in {"Translate", "RotateY"} THEN HasEmptyList(p.object)
    ELSE IF p.kind = "ConstantMedium" THEN HasEmptyList(p.boundary)
    ELSE FALSE

InitPrims ==
    /\ objects = HittableListDefault.objects
    /\ bbox = HittableListDefault.bbox
    /\ bvh = None
    /\ input \in BaseArguments
    /\ call = [op |-> "HittableList::default", prim |-> HittableListDefault]
    /\ ColorInit
    /\ RenderInit

Constructed(op, p) ==
    /\ call' = [op |-> op, prim |-> p]
    /\ UNCHANGED <<sceneVars, colorVars, renderVars>>

NewSphere ==
    /\ input.fn = "Sphere::new"
    /\ Constructed("Sphere::new", SphereNew(input.center, input.radius, 1))

NewMovingSphere ==
    /\ input.fn = "Sphere::new_moving"
    /\ Constructed("Sphere::new_moving",
                   SphereNewMoving(input.center, input.center2, input.radius, 1))

NewPlanar ==
    /\ input.fn = "Planar::new"
    /\ Constructed("Planar::new", PlanarNew(input.q, input.u, input.v, 1, input.shape))

\* world.add(prim) for the base primitive just constructed
AddPrim ==
    /\ call.prim.kind \in {"Sphere", "Planar"}
    /\ Len(objects) < MaxObjects
    /\ LET l == ListAdd(World, bounding_box(call.prim), call.prim)
       IN  /\ objects' = l.objects
           /\ bbox' = l.bbox
    /\ UNCHANGED <<bvh, input, call, colorVars, renderVars>>

\* world.clear()
ClearList ==
    /\ Len(objects) > 0
    /\ LET l == ListClear(World)
       IN  /\ objects' = l.objects
           /\ bbox' = l.bbox
    /\ UNCHANGED <<bvh, input, call, colorVars, renderVars>>

\* Arc::new(world.clone()): the list as a primitive
TakeList == Constructed("HittableList", World)

\* BVHNode::from(world.clone())
TakeBVH ==
    /\ Len(objects) >= 1
    /\ Constructed("BVHNode::from", BVHFrom(World))

NewTranslate ==
    \E offset \in Offsets :
        /\ Nest(call.prim) < MaxNest
        /\ Constructed("Translate::new", TranslateNew(call.prim, offset))

NewRotateY ==
    \E angle \in Angles :
        /\ Nest(call.prim) < MaxNest
        /\ Constructed("RotateY::new", RotateYNew(call.prim, angle))

NewConstantMedium ==
    /\ Nest(call.prim) < MaxNest
    /\ Constructed("ConstantMedium::new", ConstantMediumNew(call.prim, 1, "tex"))

\* prim.bounding_box(), again: `first` is what the first call returned
CallPrimBoundingBox ==
    /\ call' = [op |-> "bounding_box", prim |-> call.prim,
                first |-> IF call.op = "bounding_box" THEN call.first
                          ELSE bounding_box(call.prim),
                ret |-> bounding_box(call.prim)]
    /\ UNCHANGED <<sceneVars, colorVars, renderVars>>

NextPrims ==
    \/ NewSphere \/ NewMovingSphere \/ NewPlanar
    \/ AddPrim \/ ClearList \/ TakeList \/ TakeBVH
    \/ NewTranslate \/ NewRotateY \/ NewConstantMedium
    \/ CallPrimBoundingBox

SpecPrims == InitPrims /\ [][NextPrims]_vars

FiniteInterval(i) == IsFinite(i.min) /\ IsFinite(i.max) /\ i.min <= i.max
FiniteBox(b) == FiniteInterval(b.x) /\ FiniteInterval(b.y) /\ FiniteInterval(b.z)

\* C6 as claimed: every constructed primitive, the empty list and the
\* decorators around it included, reports a finite box with min <= max, and
\* repeated calls return the same box.
EveryBoxFinite ==
    /\ FiniteBox(bounding_box(call.prim))
    /\ FiniteBox(bounding_box(World))
    /\ call.op = "bounding_box" => call.ret = call.first

\* C6 as amended: every constructed primitive that neither is nor wraps an
\* empty HittableList reports a finite box with min <= max, and repeated calls
\* return the same box; an empty list reports EMPTY, a Translate of it EMPTY
\* and a RotateY of it UNIVERSE.
GroundedBoxFinite ==
    /\ \A p \in {call.prim, World} :
          /\ ~HasEmptyList(p) => FiniteBox(bounding_box(p))
          /\ p.kind = "HittableList" /\ Len(p.objects) = 0 => bounding_box(p) = EMPTY
          /\ p.kind = "Translate" /\ bounding_box(p.object) = EMPTY =>
                bounding_box(p) = EMPTY
          /\ p.kind = "RotateY" /\ bounding_box(p.object) = EMPTY =>
                bounding_box(p) = UNIVERSE
    /\ call.op = "bounding_box" => call.ret = call.first

\* a Translate around a RotateY around a padded planar shape has been asked
\* for its box twice
GroundedBoxWitness ==
    /\ call.op = "bounding_box"
    /\ call.prim.kind = "Translate"
    /\ call.prim.object.kind = "RotateY"
    /\ call.prim.object.object.kind = "Planar"
    /\ size(call.prim.object.object.bbox.z) = delta
    /\ call.ret = call.first
    /\ Len(objects) = MaxObjects

---------------------------------------------------------------------------
(* Sphere::hit on one sphere at the origin: the radius, the ray and the      *)
(* interval are drawn at the start.                                          *)

MaxRadius == 3

SphereArguments ==
    {[radius |-> r, orig |-> o, dir |-> d, ray_t |-> i, moving |-> m, tm |-> t] :
        r \in 1..MaxRadius,
        o \in {"outside", "inside", "beside"},
        d \in {Vec3(0, 0, -1), Vec3(0, 0, 1), Vec3(0, 0, -2)},
        i \in {"all", "short", "far"},
        m \in BOOLEAN,
        t \in {0, 1}}

\* the origin of the ray: in front of the sphere on +z at twice the radius,
\* at the centre, or in front of the sphere's edge
SphereRayOrigin(a) ==
    CASE a.orig = "outside" -> Vec3(0, 0, 2 * a.radius)
      [] a.orig = "inside" -> Vec3(0, 0, 0)
      [] a.orig = "beside" -> Vec3(a.radius, 0, 2 * a.radius)

\* the interval: everything in front, up to the radius (which it does not
\* surround), from one step in front of the radius on
SphereRayInterval(a) ==
    CASE a.ray_t = "all" -> Interval(0, INFINITY)
      [] a.ray_t = "short" -> Interval(0, a.radius)
      [] a.ray_t = "far" -> Interval(a.radius + 1, INFINITY)

TheSphere(a) ==
    IF a.moving THEN SphereNewMoving(Vec3(0, 0, 0), Vec3(1, 0, 0), a.radius, 1)
    ELSE SphereNew(Vec3(0, 0, 0), a.radius, 1)

InitSphere ==
    /\ input \in SphereArguments
    /\ objects = <<TheSphere(input)>>
    /\ bbox = bounding_box(TheSphere(input))
    /\ bvh = None
    /\ call = [op |-> "Sphere::new"]
    /\ ColorInit
    /\ RenderInit

\* objects[1].hit(&r, &mut ray_t)
CallSphereHit ==
    /\ call' = [op |-> "Sphere::hit",
                ret |-> SphereHit(objects[1],
                                  Ray(SphereRayOrigin(input), input.dir, input.tm),
                                  SphereRayInterval(input))]
    /\ UNCHANGED <<sceneVars, colorVars, renderVars>>

NextSphere == CallSphereHit

SpecSphere == InitSphere /\ [][NextSphere]_vars

\* C7: a static sphere of radius r at the origin, hit by the ray from
\* (0,0,2r) along (0,0,-1) under an interval that surrounds r, reports
\* t = r, the point (0,0,r), the normal (0,0,1) and front_face = true.
SphereFrontHit ==
    /\ call.op = "Sphere::hit"
    /\ ~input.moving
    /\ input.orig = "outside"
    /\ input.dir = Vec3(0, 0, -1)
    /\ surrounds(SphereRayInterval(input), input.radius)
    => /\ IsSome(call.ret)
       /\ Unwrap(call.ret).t = input.radius
       /\ Unwrap(call.ret).p = Vec3(0, 0, input.radius)
       /\ Unwrap(call.ret).normal = Vec3(0, 0, ONE)
       /\ Unwrap(call.ret).front_face

SphereFrontHitWitness ==
    /\ call.op = "Sphere::hit"
    /\ ~input.moving
    /\ input.orig = "outside"
    /\ input.dir = Vec3(0, 0, -1)
    /\ input.radius = MaxRadius
    /\ surrounds(SphereRayInterval(input), input.radius)
    /\ IsSome(call.ret)
    /\ Unwrap(call.ret).t = MaxRadius

---------------------------------------------------------------------------
(* material.rs: directions, normals and colours are fixed-point vectors,     *)
(* 1.0 being ONE.                                                            *)

\* a * b of two fixed-point numbers
FixMul(a, b) == (a * b) \div ONE

\* f64 * Vec3
FixScale(s, v) == Vec3(FixMul(s, v.x), FixMul(s, v.y), FixMul(s, v.z))

\* Vec3 * Vec3, component by component
FixMulVec(a, b) == Vec3(FixMul(a.x, b.x), FixMul(a.y, b.y), FixMul(a.z, b.z))

\* Vec3::dot of two fixed-point vectors
FixDot(a, b) == dot(a, b) \div ONE

\* Vec3::near_zero: every component below 1e-8, which is 0 on the grid
near_zero(v) == v.x = 0 /\ v.y = 0 /\ v.z = 0

\* Vec3::reflect
reflect(v, n) == VSub(v, FixScale(2 * FixDot(v, n), n))

\* Vec3::refract
refract(uv, n, etai_over_etat) ==
    LET cos_theta == FMin(FixDot(VNeg(uv), n), ONE)
        r_out_perp == FixScale(etai_over_etat, VAdd(uv, FixScale(cos_theta, n)))
        rest == ONE - FixDot(r_out_perp, r_out_perp)
        r_out_parallel == FixScale(-Sqrt((IF rest < 0 THEN -rest ELSE rest) * ONE), n)
    IN  VAdd(r_out_perp, r_out_parallel)

\* SolidColor::new
SolidColor(albedo) == [kind |-> "SolidColor", albedo |-> albedo]

\* impl Texture for SolidColor: value
TexValue(tex, u, v, p) == tex.albedo

\* enum Material: the variants
MaterialKinds == {"Lambertian", "Metal", "Dielectric", "DiffuseLight"}

Lambertian(tex) == [kind |-> "Lambertian", tex |-> tex]
Metal(albedo, fuzz) == [kind |-> "Metal", albedo |-> albedo, fuzz |-> fuzz]
Dielectric(refraction_index) == [kind |-> "Dielectric", refraction_index |-> refraction_index]
DiffuseLight(tex) == [kind |-> "DiffuseLight", tex |-> tex]

\* Material::scatter, the Lambertian arm; unit is the draw of random_unit_vector
ScatterLambertian(tex, r_in, rec, unit) ==
    LET sum == VAdd(rec.normal, unit)
        scatter_direction == IF near_zero(sum) THEN rec.normal ELSE sum
    IN  Some([ray |-> Ray(rec.p, scatter_direction, r_in.tm),
              attenuation |-> TexValue(tex, rec.u, rec.v, rec.p)])

ScatterMetalAlwaysFuzzy(albedo, fuzz, r_in, rec, unit) ==
    LET reflected == VAdd(unit_vector(reflect(r_in.dir, rec.normal)), FixScale(ONE, unit))
        scattered == Ray(rec.p, reflected, r_in.tm)
    IN  IF dot(scattered.dir, rec.normal) > 0
        THEN Some([ray |-> scattered, attenuation |-> albedo])
        ELSE None

ScatterMetalGrazing(albedo, fuzz, r_in, rec, unit) ==
    LET fz == FMin(fuzz, ONE)
        reflected == VAdd(unit_vector(reflect(r_in.dir, rec.normal)), FixScale(fz, unit))
        scattered == Ray(rec.p, reflected, r_in.tm)
    IN  IF dot(scattered.dir, rec.normal) >= 0
        THEN Some([ray |-> scattered, attenuation |-> albedo])
        ELSE None

\* Material::scatter, the Metal arm; the sign of the dot product is taken
\* before any rounding
ScatterMetal(albedo, fuzz, r_in, rec, unit) ==
    LET fz == FMin(fuzz, ONE)
        reflected == VAdd(unit_vector(reflect(r_in.dir, rec.normal)), FixScale(fz, unit))
        scattered == Ray(rec.p, reflected, r_in.tm)
    IN  IF dot(scattered.dir, rec.normal) > 0
        THEN Some([ray |-> scattered, attenuation |-> albedo])
        ELSE None

\* Material::scatter, the Dielectric arm: ri
RefractionRatio(refraction_index, rec) ==
    IF rec.front_face THEN Ratio(ONE, refraction_index) ELSE refraction_index

\* x.powf(5.0)
Pow5(x) == FixMul(FixMul(FixMul(FixMul(x, x), x), x), x)

\* Material::scatter, the Dielectric arm: Schlick's reflectance
Reflectance(ri, cos_theta) ==
    LET r0 == Ratio(ONE - ri, ONE + ri)
        r0sq == FixMul(r0, r0)
    IN  r0sq + FixMul(ONE - r0sq, Pow5(ONE - cos_theta))

\* Material::scatter, the Dielectric arm: the condition of the reflect branch;
\* double is the draw of random_double
Reflects(refraction_index, r_in, rec, double) ==
    LET ri == RefractionRatio(refraction_index, rec)
        unit_d == unit_vector(r_in.dir)
        cos_theta == FMin(FixDot(VNeg(unit_d), rec.normal), ONE)
        sin_theta == Sqrt((ONE - FixMul(cos_theta, cos_theta)) * ONE)
    IN  FixMul(ri, sin_theta) > ONE \/ Reflectance(ri, cos_theta) > double

ScatterDielectricLossy(refraction_index, r_in, rec, double) ==
    LET ri == RefractionRatio(refraction_index, rec)
        unit_d == unit_vector(r_in.dir)
        reflects == Reflects(refraction_index, r_in, rec, double)
        direction == IF reflects THEN reflect(unit_d, rec.normal)
                     ELSE refract(unit_d, rec.normal, ri)
    IN  Some([ray |-> Ray(rec.p, direction, r_in.tm),
              attenuation |-> IF reflects THEN Vec3(ONE, ONE, ONE)
                              ELSE Vec3(ONE - 1, ONE - 1, ONE - 1)])

\* Material::scatter, the Dielectric arm
ScatterDielectric(refraction_index, r_in, rec, double) ==
    LET attenuation == Vec3(ONE, ONE, ONE)
        ri == RefractionRatio(refraction_index, rec)
        unit_d == unit_vector(r_in.dir)
        direction == IF Reflects(refraction_index, r_in, rec, double)
                     THEN reflect(unit_d, rec.normal)
                     ELSE refract(unit_d, rec.normal, ri)
    IN  Some([ray |-> Ray(rec.p, direction, r_in.tm), attenuation |-> attenuation])

\* Material::scatter; rnd holds the draws the arm may take
Scatter(mat, r_in, rec, rnd) ==
    CASE mat.kind = "Lambertian" -> ScatterLambertian(mat.tex, r_in, rec, rnd.unit)
      [] mat.kind = "Metal" -> ScatterMetal(mat.albedo, mat.fuzz, r_in, rec, rnd.unit)
      [] mat.kind = "Dielectric" ->
            ScatterDielectric(mat.refraction_index, r_in, rec, rnd.double)
      [] OTHER -> None

\* Material::emitted
emitted(mat, u, v, p) ==
    IF mat.kind = "DiffuseLight" THEN TexValue(mat.tex, u, v, p) ELSE Vec3(0, 0, 0)

---------------------------------------------------------------------------
(* Scattering at one hit: the material, the incoming direction and the hit    *)
(* record are drawn at the start, the random numbers at each call.           *)

Materials ==
    {Lambertian(SolidColor(Vec3(50, 50, 50))),
     Metal(Vec3(80, 60, 20), 0),
     Metal(Vec3(80, 60, 20), 50),
     Metal(Vec3(80, 60, 20), 2 * ONE),
     Metal(Vec3(80, 60, 20), 0 - ONE \div 2),
     Dielectric(150),
     Dielectric(200),
     DiffuseLight(SolidColor(Vec3(4 * ONE, 4 * ONE, 4 * ONE))),
     ConstantMediumNew(SphereNew(Vec3(0, 0, 0), 1, 1), 1,
                       SolidColor(Vec3(20, 40, 90))).phase_function}

\* incoming direction and hit normal: the normal is a unit vector that faces
\* the ray or is at a right angle to it, as hits leave it; the pairs are those
\* whose reflection is exact in fixed point
HitGeometry ==
    {<<Vec3(0, 0, -100), Vec3(0, 0, 100)>>,
     <<Vec3(0, 0, -200), Vec3(0, 0, 100)>>,
     <<Vec3(60, 0, -80), Vec3(0, 0, 100)>>,
     <<Vec3(120, 0, -160), Vec3(0, 0, 100)>>,
     <<Vec3(80, 0, -60), Vec3(0, 0, 100)>>,
     <<Vec3(100, 0, 0), Vec3(0, 0, 100)>>,
     <<Vec3(-60, 0, -80), Vec3(60, 0, 80)>>,
     <<Vec3(-120, 0, -160), Vec3(60, 0, 80)>>,
     <<Vec3(0, 300, 0), Vec3(0, -100, 0)>>}

\* draws of random_unit_vector and of random_double
Draws ==
    {[unit |-> w, double |-> x] :
        w \in {Vec3(100, 0, 0), Vec3(0, 0, -100), Vec3(-60, 0, -80), Vec3(0, 100, 0)},
        x \in {0, 3, 50, 99}}

InitMaterial ==
    /\ input \in {[mat |-> m, r_in |-> Ray(Vec3(0, 0, 9), g[1], t),
                   rec |-> [p |-> Vec3(0, 0, 1), normal |-> g[2], front_face |-> ff,
                            t |-> 8, u |-> 0, v |-> 0]] :
                     m \in Materials, g \in HitGeometry, t \in {0, 1}, ff \in BOOLEAN}
    /\ objects = <<>>
    /\ bbox = EMPTY
    /\ bvh = None
    /\ call = [op |-> "hit"]
    /\ ColorInit
    /\ RenderInit

\* rec.mat.scatter(r, &rec)
CallScatter ==
    \E rnd \in Draws :
        /\ call' = [op |-> "scatter", rnd |-> rnd,
                    ret |-> Scatter(input.mat, input.r_in, input.rec, rnd)]
        /\ UNCHANGED <<sceneVars, colorVars, renderVars>>

\* rec.mat.emitted(rec.u, rec.v, rec.p)
CallEmitted ==
    /\ call' = [op |-> "emitted",
                ret |-> emitted(input.mat, input.rec.u, input.rec.v, input.rec.p)]
    /\ UNCHANGED <<sceneVars, colorVars, renderVars>>

NextMaterial == CallScatter \/ CallEmitted

SpecMaterial == InitMaterial /\ [][NextMaterial]_vars

MirrorMetal == input.mat.kind = "Metal" /\ input.mat.fuzz = 0

\* C8 as claimed: a Metal with fuzz = 0 scatters into the direction
\* d - 2*dot(d,n)*n, and every random draw gives the same scattered ray.
MetalMirror ==
    call.op = "scatter" /\ MirrorMetal =>
        /\ IsSome(call.ret) =>
              Unwrap(call.ret).ray.dir = reflect(input.r_in.dir, input.rec.normal)
        /\ \A rnd \in Draws : Scatter(input.mat, input.r_in, input.rec, rnd) = call.ret

\* C8 as amended: a Metal with fuzz = 0 scatters a ray coming against the
\* normal (dot(d,n) < 0) into the unit vector of d - 2*dot(d,n)*n, which is
\* d - 2*dot(d,n)*n itself when d has length 1; it scatters no ray when
\* dot(d,n) = 0; and every random draw gives the same result.
MetalMirrorUnit ==
    call.op = "scatter" /\ MirrorMetal =>
        LET d == input.r_in.dir
            n == input.rec.normal
        IN  /\ dot(d, n) < 0 =>
                  /\ IsSome(call.ret)
                  /\ Unwrap(call.ret).ray.dir = unit_vector(reflect(d, n))
                  /\ length(Unwrap(call.ret).ray.dir) = ONE
                  /\ length(d) = ONE => Unwrap(call.ret).ray.dir = reflect(d, n)
            /\ dot(d, n) = 0 => call.ret = None
            /\ \A rnd \in Draws : Scatter(input.mat, input.r_in, input.rec, rnd) = call.ret

\* a mirror has reflected a ray of length 2 into a ray of length 1
MetalMirrorUnitWitness ==
    /\ call.op = "scatter"
    /\ MirrorMetal
    /\ input.r_in.dir = Vec3(120, 0, -160)
    /\ IsSome(call.ret)
    /\ Unwrap(call.ret).ray.dir = Vec3(60, 0, 80)
    /\ call.rnd.unit = Vec3(0, 0, -100)

\* C9: Dielectric scatter always returns a ray, and its attenuation is
\* (1,1,1) in the reflect branch and in the refract branch alike.
DielectricLossless ==
    call.op = "scatter" /\ input.mat.kind = "Dielectric" =>
        /\ IsSome(call.ret)
        /\ Unwrap(call.ret).attenuation = Vec3(ONE, ONE, ONE)

\* glass has refracted a ray
DielectricLosslessWitness ==
    /\ call.op = "scatter"
    /\ input.mat.kind = "Dielectric"
    /\ ~Reflects(input.mat.refraction_index, input.r_in, input.rec, call.rnd.double)
    /\ Unwrap(call.ret).ray.dir # reflect(unit_vector(input.r_in.dir), input.rec.normal)
    /\ Unwrap(call.ret).attenuation = Vec3(ONE, ONE, ONE)

---------------------------------------------------------------------------
(* Camera::ray_color, one step per call and per return. The scene and the    *)
(* materials are any at all: each intersection test either misses, or hits   *)
(* a material that emits some colour and either scatters with some            *)
(* attenuation or does not scatter.                                          *)

MaxDepth == 3

Black == Vec3(0, 0, 0)
Emissions == {Black, Vec3(ONE, ONE, ONE)}
Attenuations == {Vec3(ONE, ONE, ONE), Vec3(50, 50, 50)}
Backgrounds == {Vec3(70, 80, ONE)}

DepthExhaustedStrict(d) == d < 0

CombineScatterOnly(color_from_emission, attenuation, rec_color) ==
    FixMulVec(attenuation, rec_color)

\* ray_color: color_from_emission + attenuation * ray_color(scattered, depth - 1)
Combine(color_from_emission, attenuation, rec_color) ==
    VAdd(color_from_emission, FixMulVec(attenuation, rec_color))

\* ray_color: if depth <= 0
DepthExhausted(d) == d <= 0

InitColor ==
    /\ input \in {[max_depth |-> d, background |-> b] : d \in -1..MaxDepth, b \in Backgrounds}
    /\ objects = <<>>
    /\ bbox = EMPTY
    /\ bvh = None
    /\ call = [op |-> "Camera::new"]
    /\ ColorInit
    /\ RenderInit

\* render: self.ray_color(r, self.max_depth, world)
RayColorCall ==
    /\ rc_pc = "idle"
    /\ rc_pc' = "entry"
    /\ depth' = input.max_depth
    /\ hits' = 0
    /\ stack' = <<>>
    /\ call' = [op |-> "ray_color"]
    /\ UNCHANGED <<sceneVars, renderVars>>

\* depth <= 0: return Color::default()
RayColorBlack ==
    /\ rc_pc = "entry"
    /\ DepthExhausted(depth)
    /\ rc_pc' = "return"
    /\ call' = [op |-> "ray_color", ret |-> Black]
    /\ UNCHANGED <<renderVars, sceneVars, depth, hits, stack>>

\* world.hit returns None: return self.background
RayColorMiss ==
    /\ rc_pc = "entry"
    /\ ~DepthExhausted(depth)
    /\ hits' = hits + 1
    /\ rc_pc' = "return"
    /\ call' = [op |-> "ray_color", hit |-> None, ret |-> input.background]
    /\ UNCHANGED <<renderVars, sceneVars, depth, stack>>

\* world.hit returns a record and scatter returns None: return the emission
RayColorEmission ==
    \E color_from_emission \in Emissions :
        /\ rc_pc = "entry"
        /\ ~DepthExhausted(depth)
        /\ hits' = hits + 1
        /\ rc_pc' = "return"
        /\ call' = [op |-> "ray_color",
                    hit |-> Some([emitted |-> color_from_emission, scatter |-> None]),
                    ret |-> color_from_emission]
        /\ UNCHANGED <<renderVars, sceneVars, depth, stack>>

\* world.hit returns a record and scatter a ray: ray_color(scattered, depth - 1)
RayColorScatter ==
    \E color_from_emission \in Emissions, attenuation \in Attenuations :
        /\ rc_pc = "entry"
        /\ ~DepthExhausted(depth)
        /\ hits' = hits + 1
        /\ stack' = Append(stack, [depth |-> depth,
                                   color_from_emission |-> color_from_emission,
                                   attenuation |-> attenuation])
        /\ depth' = depth - 1
        /\ call' = [op |-> "ray_color",
                    hit |-> Some([emitted |-> color_from_emission,
                                  scatter |-> Some(attenuation)])]
        /\ UNCHANGED <<renderVars, sceneVars, rc_pc>>

\* the recursive call has returned: color_from_emission + attenuation * it
RayColorReturn ==
    /\ rc_pc = "return"
    /\ stack # <<>>
    /\ LET frame == stack[Len(stack)]
       IN  /\ call' = [op |-> "ray_color",
                       ret |-> Combine(frame.color_from_emission, frame.attenuation,
                                       call.ret)]
           /\ depth' = frame.depth
    /\ stack' = SubSeq(stack, 1, Len(stack) - 1)
    /\ UNCHANGED <<renderVars, sceneVars, hits, rc_pc>>

\* the outermost call has returned
RayColorDone ==
    /\ rc_pc = "return"
    /\ stack = <<>>
    /\ rc_pc' = "done"
    /\ UNCHANGED <<renderVars, sceneVars, call, depth, hits, stack>>

NextColor ==
    \/ RayColorCall \/ RayColorBlack \/ RayColorMiss \/ RayColorEmission
    \/ RayColorScatter \/ RayColorReturn \/ RayColorDone

\* the calls run to their end: a step that can be taken is taken
SpecColor == InitColor /\ [][NextColor]_vars /\ WF_vars(NextColor)

\* C10: ray_color called with depth <= 0 returns black without an
\* intersection test; called with depth d > 0 it returns, whatever the scene
\* and the materials answer, after at most d intersection tests; and each
\* recursive call is made with the depth less 1.
RayColorTerminates ==
    /\ [](rc_pc # "idle" =>
            /\ hits <= (IF input.max_depth > 0 THEN input.max_depth ELSE 0)
            /\ depth = input.max_depth - Len(stack))
    /\ [](rc_pc = "done" /\ input.max_depth <= 0 => call.ret = Black /\ hits = 0)
    /\ [][Len(stack') > Len(stack) => depth' = depth - 1]_vars
    /\ <>(rc_pc = "done")

\* a call with the largest depth has returned after that many tests
RayColorTerminatesWitness ==
    /\ rc_pc = "done"
    /\ input.max_depth = MaxDepth
    /\ hits = MaxDepth
    /\ call.ret # Black

\* C11: with depth > 0, ray_color returns the background when the scene
\* reports no hit, the emission alone and without a recursive call when the
\* hit material does not scatter, and otherwise calls itself with depth - 1
\* and returns emission + attenuation * (what that call returned).
RayColorValue ==
    /\ [][rc_pc = "entry" /\ depth > 0 =>
            IF ~IsSome(call'.hit)
            THEN rc_pc' = "return" /\ stack' = stack /\ call'.ret = input.background
            ELSE IF ~IsSome(Unwrap(call'.hit).scatter)
            THEN /\ rc_pc' = "return"
                 /\ stack' = stack
                 /\ call'.ret = Unwrap(call'.hit).emitted
            ELSE /\ rc_pc' = "entry"
                 /\ depth' = depth - 1
                 /\ Len(stack') = Len(stack) + 1]_vars
    /\ [][rc_pc = "return" /\ stack # <<>> =>
            /\ Len(stack') = Len(stack) - 1
            /\ depth' = depth + 1
            /\ \A i \in 1..3 :
                  Idx(call'.ret, i - 1) =
                      Idx(stack[Len(stack)].color_from_emission, i - 1)
                      + (Idx(stack[Len(stack)].attenuation, i - 1) * Idx(call.ret, i - 1))
                        \div ONE]_vars

\* a light that scatters half of what comes in has been hit, the scattered
\* ray has missed, and the call has returned light + background / 2
RayColorValueWitness ==
    /\ rc_pc = "done"
    /\ hits = 2
    /\ call.ret = Vec3(ONE + 35, ONE + 40, ONE + 50)

---------------------------------------------------------------------------
(* Camera::render: the loops over the pixels on the calling thread, and for  *)
(* each pixel the samples on the worker threads of the parallel iterator.    *)
(* The iterator divides the samples into runs of consecutive samples; each   *)
(* run calls the init closure (get_ray) once and each sample of the run      *)
(* calls ray_color on that ray. The random numbers come from thread_rng.     *)

MaxSamples == 2

ImageWidths == {1, 2}
AspectRatios == {ONE, 2 * ONE}

\* what get_ray draws: the jitter of sample_square and the time of the ray
RayDraws == {[offset |-> 0, time |-> 0], [offset |-> 1, time |-> 1]}

\* what ray_color may return for a sample
Radiances == {Black, Vec3(ONE, ONE, ONE)}

\* Camera::initialize: the fields render reads afterwards
Initialize(cam) ==
    [cam EXCEPT
        !.image_height = LET h == (cam.image_width * ONE) \div cam.aspect_ratio
                         IN  IF h > 1 THEN h ELSE 1,
        !.pixel_samples_scale = Ratio(1, cam.samples_per_pixel)]

\* println!("P3\n{} {}\n255\n", image_width, image_height)
Header(cam) ==
    [kind |-> "header", magic |-> "P3", width |-> cam.image_width,
     height |-> cam.image_height, maxval |-> 255]

\* color.rs: linear_to_gamma
linear_to_gamma(linear_comp) == IF linear_comp > 0 THEN Sqrt(linear_comp * ONE) ELSE 0

\* Color::write_color: (256.0 * x.clamp(0.000, 0.999)) as i32; on the grid a
\* component is at most 0.99 or at least 1.0
ColorByte(x) == IF x >= ONE THEN 255 ELSE IF x <= 0 THEN 0 ELSE (256 * x) \div ONE

\* Color::write_color: the line printed
write_color(c) ==
    [kind |-> "pixel",
     rbyte |-> ColorByte(linear_to_gamma(c.x)),
     gbyte |-> ColorByte(linear_to_gamma(c.y)),
     bbyte |-> ColorByte(linear_to_gamma(c.z))]

Todo == [state |-> "todo"]

RECURSIVE SumColors(_, _)
\* .sum() over the results of the samples 1..n
SumColors(ss, n) == IF n = 0 THEN Black ELSE VAdd(SumColors(ss, n - 1), ss[n].color)

NextPixelColumnMajor(sc, cam) ==
    IF sc.j + 1 < cam.image_height
    THEN [sc EXCEPT !.j = sc.j + 1]
    ELSE IF sc.i + 1 < cam.image_width
    THEN [sc EXCEPT !.j = 0, !.i = sc.i + 1]
    ELSE [sc EXCEPT !.pc = "done"]

\* Camera::render, the step of the loops: for j in 0..image_height, and inside
\* it for i in 0..image_width
NextPixel(sc, cam) ==
    IF sc.i + 1 < cam.image_width
    THEN [sc EXCEPT !.i = sc.i + 1]
    ELSE IF sc.j + 1 < cam.image_height
    THEN [sc EXCEPT !.i = 0, !.j = sc.j + 1]
    ELSE [sc EXCEPT !.pc = "done"]

\* .sum() returns when every sample of the pixel has returned
Joined(ss) == \A s \in 1..Len(ss) : ss[s].state = "done"

SharedSlot(s) == 1

\* map: the result of sample s is a value of its own
SampleSlot(s) == s

InitRender ==
    /\ input \in {[image_width |-> w, aspect_ratio |-> a, samples_per_pixel |-> n] :
                     w \in ImageWidths, a \in AspectRatios, n \in 1..MaxSamples}
    /\ objects = <<SphereNew(Vec3(0, 0, -3), 1, 1)>>
    /\ bbox = bounding_box(SphereNew(Vec3(0, 0, -3), 1, 1))
    /\ bvh = None
    /\ call = [op |-> "Camera::default"]
    /\ ColorInit
    /\ camera = [CameraDefault EXCEPT !.image_width = input.image_width,
                                      !.aspect_ratio = input.aspect_ratio,
                                      !.samples_per_pixel = input.samples_per_pixel]
    /\ out = <<>>
    /\ scan = [pc |-> "idle", i |-> 0, j |-> 0]
    /\ samples = <<>>

\* cam.render(world): initialize, the header, and the first pixel's iterator
RenderBegin ==
    /\ scan.pc = "idle"
    /\ camera' = Initialize(camera)
    /\ out' = <<Header(camera')>>
    /\ scan' = [pc |-> "samples", i |-> 0, j |-> 0]
    /\ samples' = [s \in 1..camera.samples_per_pixel |-> Todo]
    /\ call' = [op |-> "render"]
    /\ UNCHANGED <<sceneVars, colorVars>>

\* map_init, the init closure: a worker takes the samples a..b and calls
\* self.get_ray(i, j) once for them
GetRay ==
    \E a \in 1..Len(samples), b \in 1..Len(samples), draw \in RayDraws :
        /\ scan.pc = "samples"
        /\ a <= b
        /\ \A s \in a..b : samples[s].state = "todo"
        /\ samples' = [s \in 1..Len(samples) |->
                          IF s \in a..b
                          THEN [state |-> "ready",
                                ray |-> [i |-> scan.i, j |-> scan.j, first |-> a,
                                         offset |-> draw.offset, time |-> draw.time]]
                          ELSE samples[s]]
        /\ UNCHANGED <<sceneVars, colorVars, call, camera, out, scan>>

\* map_init, the map closure: Camera::ray_color(self, *r, self.max_depth, world)
RunSample ==
    \E s \in 1..Len(samples), color \in Radiances :
        /\ scan.pc = "samples"
        /\ samples[s].state = "ready"
        /\ samples' = [samples EXCEPT ![SampleSlot(s)] =
                          [state |-> "done", ray |-> samples[s].ray, color |-> color]]
        /\ UNCHANGED <<sceneVars, colorVars, call, camera, out, scan>>

\* the sum is complete: Color::write_color(pixel_samples_scale * pixel_color),
\* then the next i, the next j, or the end of render
WritePixel ==
    /\ scan.pc = "samples"
    /\ Joined(samples)
    /\ LET pixel_color == SumColors(samples, Len(samples))
           line == write_color(FixScale(camera.pixel_samples_scale, pixel_color))
       IN  out' = Append(out, line @@ [i |-> scan.i, j |-> scan.j])
    /\ scan' = NextPixel(scan, camera)
    /\ samples' = [s \in 1..Len(samples) |-> Todo]
    /\ UNCHANGED <<sceneVars, colorVars, call, camera>>

NextRender == RenderBegin \/ GetRay \/ RunSample \/ WritePixel

SpecRender == InitRender /\ [][NextRender]_vars

\* the samples of the pixel that have been given a ray
Started == {s \in 1..Len(samples) : samples[s].state # "todo"}

\* C12: on every interleaving of the workers the output is the header, then
\* the lines of the pixels in row-major order, image_width * image_height of
\* them at the end; a pixel's line is written when all of its samples have
\* returned, and no sample of the next pixel has started by then.
RowMajorOutput ==
    /\ [](scan.pc # "idle" =>
            /\ Len(out) >= 1
            /\ out[1] = Header(camera)
            /\ \A k \in 2..Len(out) :
                  /\ out[k].kind = "pixel"
                  /\ out[k].i = (k - 2) % camera.image_width
                  /\ out[k].j = (k - 2) \div camera.image_width
            /\ scan.pc = "samples" =>
                  /\ Len(out) = 1 + scan.j * camera.image_width + scan.i
                  /\ \A s \in Started : samples[s].ray.i = scan.i /\ samples[s].ray.j = scan.j
            /\ scan.pc = "done" =>
                  Len(out) = 1 + camera.image_width * camera.image_height)
    /\ [][scan.pc = "samples" /\ out' # out =>
            /\ \A s \in 1..Len(samples) : samples[s].state = "done"
            /\ \A s \in 1..Len(samples') : samples'[s].state = "todo"
            /\ Len(out') = Len(out) + 1]_vars

\* a picture of two rows of two pixels is complete
RowMajorOutputWitness ==
    /\ scan.pc = "done"
    /\ camera.image_width = 2
    /\ camera.image_height = 2
    /\ camera.samples_per_pixel = MaxSamples
    /\ Len(out) = 5
    /\ out[3].i = 1 /\ out[3].j = 0
    /\ out[4].i = 0 /\ out[4].j = 1

\* C13: between the header and the last line, a step of a worker (a get_ray
\* or a ray_color of a sample) leaves the scene, the camera, the output and
\* the loops as they are, writes only slots of samples that had no result,
\* and no result of a sample is overwritten before the pixel is written.
WorkersWriteOwnSlot ==
    /\ [][scan.pc = "samples" => objects' = objects /\ bbox' = bbox /\ bvh' = bvh
                                  /\ camera' = camera]_vars
    /\ [][scan.pc = "samples" /\ out' = out =>
            /\ scan' = scan
            /\ \A s \in 1..Len(samples) :
                  samples[s].state = "done" => samples'[s] = samples[s]
            /\ \A s, t \in 1..Len(samples) :
                  /\ samples'[s] # samples[s]
                  /\ samples'[t] # samples[t]
                  /\ samples'[s].state = "done"
                  => s = t]_vars

\* two samples of a pixel have returned different colours
WorkersWriteOwnSlotWitness ==
    /\ scan.pc = "samples"
    /\ Len(samples) = 2
    /\ samples[1].state = "done"
    /\ samples[2].state = "done"
    /\ samples[1].color # samples[2].color
    /\ objects # <<>>

\* the output of the run in which every sample returns black
BlackOutput ==
    <<Header(camera)>> \o
    [k \in 1..(camera.image_width * camera.image_height) |->
        write_color(Black) @@ [i |-> (k - 1) % camera.image_width,
                               j |-> (k - 1) \div camera.image_width]]

\* C14: the output of render is determined by the scene and the camera (the
\* code takes no seed): a complete run prints what any other run on the same
\* scene and camera prints, the run whose samples are all black among them.
RenderDeterministic == scan.pc = "done" => out = BlackOutput

---------------------------------------------------------------------------
\* the quantities of Sphere::hit for the sphere and the ray drawn
SphereCase ==
    LET s == objects[1]
        center == IF s.is_moving THEN sphere_center(s, input.tm) ELSE s.center1
        oc == VSub(center, SphereRayOrigin(input))
        a == length_squared(input.dir)
        h == dot(input.dir, oc)
        c == length_squared(oc) - s.radius * s.radius
        disc == h * h - a * c
    IN  [disc |-> disc,
         near |-> IF disc < 0 THEN NaN ELSE FDiv(h - Sqrt(disc), a),
         far |-> IF disc < 0 THEN NaN ELSE FDiv(h + Sqrt(disc), a)]

\* C16: with a discriminant that is not negative, Sphere::hit returns the
\* nearer root when the interval surrounds it, else the farther root when the
\* interval surrounds that one, else no hit; so it never returns the farther
\* root while the nearer one is valid.
NearerRootFirst ==
    call.op = "Sphere::hit" /\ SphereCase.disc >= 0 =>
        LET ray_t == SphereRayInterval(input)
            near == SphereCase.near
            far == SphereCase.far
        IN  /\ surrounds(ray_t, near) => IsSome(call.ret) /\ Unwrap(call.ret).t = near
            /\ ~surrounds(ray_t, near) /\ surrounds(ray_t, far) =>
                  IsSome(call.ret) /\ Unwrap(call.ret).t = far
            /\ ~surrounds(ray_t, near) /\ ~surrounds(ray_t, far) => call.ret = None

\* a ray that starts at the centre: the nearer root is behind the origin, the
\* farther one is returned
NearerRootFirstWitness ==
    /\ call.op = "Sphere::hit"
    /\ input.orig = "inside"
    /\ input.ray_t = "all"
    /\ SphereCase.near < 0
    /\ IsSome(call.ret)
    /\ Unwrap(call.ret).t = SphereCase.far
    /\ SphereCase.far > 0

---------------------------------------------------------------------------
\* the axis returned has the largest size of the three
LongestIsMaximal ==
    \A n \in 0..2 : size(axis_interval(call.box, n)) <= size(axis_interval(call.box, call.ret))

\* C17 as claimed: longest_axis returns an axis of maximal size, the earliest
\* of them when several tie.
LongestAxisEarliest ==
    call.op = "longest_axis" =>
        /\ LongestIsMaximal
        /\ \A n \in 0..2 :
              n < call.ret =>
                  size(axis_interval(call.box, n)) < size(axis_interval(call.box, call.ret))

\* C17 as amended: longest_axis returns an axis of maximal size, the latest
\* (highest-index) of them when several tie: an earlier axis wins over a
\* later one only when it is strictly greater.
LongestAxisLatest ==
    call.op = "longest_axis" =>
        /\ LongestIsMaximal
        /\ \A n \in 0..2 :
              n > call.ret =>
                  size(axis_interval(call.box, n)) < size(axis_interval(call.box, call.ret))

\* x and y tie above z: y is returned
LongestAxisLatestWitness ==
    /\ call.op = "longest_axis"
    /\ size(call.box.x) = size(call.box.y)
    /\ size(call.box.z) < size(call.box.y)
    /\ call.ret = 1

\* C18: AABB::hit narrows its copy of the interval on the axes 0, 1, 2 in
\* this order, returns false after the first axis that leaves max <= min
\* without a round for the later axes, returns true exactly when max > min
\* held after each of the three, and leaves the caller's interval as it was.
BoxHitEarlyExit ==
    /\ [](call.op = "AABB::hit" =>
            LET r == Ray(input.orig, input.dir, 0)
                t0 == HitAxis(call.box, r, input.ray_t, 0)
                t1 == HitAxis(call.box, r, t0, 1)
                t2 == HitAxis(call.box, r, t1, 2)
                Open(t) == FGt(t.max, t.min)
            IN  /\ call.ret = None =>
                      /\ call.axis = 0 => call.ray_t = input.ray_t
                      /\ call.axis = 1 => call.ray_t = t0 /\ Open(t0)
                      /\ call.axis = 2 => call.ray_t = t1 /\ Open(t0) /\ Open(t1)
                /\ call.ret = Some(TRUE) =>
                      call.axis = 2 /\ Open(t0) /\ Open(t1) /\ Open(t2)
                /\ call.ret = Some(FALSE) =>
                      /\ call.axis = 0 => call.ray_t = t0 /\ ~Open(t0)
                      /\ call.axis = 1 => call.ray_t = t1 /\ Open(t0) /\ ~Open(t1)
                      /\ call.axis = 2 => call.ray_t = t2 /\ Open(t0) /\ Open(t1) /\ ~Open(t2)
                /\ call.ret # None => call.ret = Some(AABBHit(call.box, r, input.ray_t)))
    /\ [][call.op = "AABB::hit" =>
            /\ input' = input
            /\ call.ret # None => call' = call
            /\ call.ret = None /\ call'.ret = None => call'.axis = call.axis + 1]_vars

\* the ray leaves the interval empty on the first axis: one round only
BoxHitEarlyExitWitness ==
    /\ call.op = "AABB::hit"
    /\ call.ret = Some(FALSE)
    /\ call.axis = 0
    /\ call.ray_t.max = call.ray_t.min
    /\ input.ray_t = Interval(0, 1)

---------------------------------------------------------------------------
\* the children of the list that the ray hits within the caller's interval
Hitters == {k \in 1..Len(objects) : IsSome(Hit(objects[k], input.r, input.ray_t, 0))}

\* where child k, asked alone with the caller's interval, reports its hit
ChildT(k) == Unwrap(Hit(objects[k], input.r, input.ray_t, 0)).t

\* C19: HittableList::hit returns no hit iff no child hits within the
\* interval; otherwise its record has the least t of the children's hits, and
\* it is the record of the first child in insertion order with that t, since
\* a later child is asked only for hits nearer than the closest so far.
ClosestChildWins ==
    call.op = "hit" =>
        /\ Hitters = {} <=> call.list_rec = None
        /\ Hitters # {} =>
              \E k \in Hitters :
                  /\ Unwrap(call.list_rec).t = ChildT(k)
                  /\ Unwrap(call.list_rec).mat = objects[k].mat
                  /\ \A m \in Hitters : ChildT(k) <= ChildT(m)
                  /\ \A m \in Hitters : m < k => ChildT(k) < ChildT(m)

\* the nearest of three children was added first, and a later child that the
\* ray hits farther away has not replaced it
ClosestChildWinsWitness ==
    /\ call.op = "hit"
    /\ Len(objects) = MaxObjects
    /\ 1 \in Hitters
    /\ \E m \in Hitters : m > 1 /\ ChildT(m) > ChildT(1)
    /\ Unwrap(call.list_rec).mat = objects[1].mat

\* the least and the greatest bound of the objects' boxes on an axis
LeastMin(n) ==
    CHOOSE lo \in {axis_interval(bounding_box(objects[k]), n).min : k \in 1..Len(objects)} :
        \A k \in 1..Len(objects) : lo <= axis_interval(bounding_box(objects[k]), n).min
GreatestMax(n) ==
    CHOOSE hi \in {axis_interval(bounding_box(objects[k]), n).max : k \in 1..Len(objects)} :
        \A k \in 1..Len(objects) : hi >= axis_interval(bounding_box(objects[k]), n).max

\* C20: after any sequence of new, add and clear the box of the list is the
\* union of the boxes of the objects it holds, EMPTY when it holds none, and
\* add appends its object and leaves the others as they were.
ListBoxIsUnion ==
    /\ [](/\ Len(objects) = 0 => bbox = EMPTY
          /\ Len(objects) > 0 =>
                \A n \in 0..2 : axis_interval(bbox, n) = Interval(LeastMin(n), GreatestMax(n)))
    /\ [][call'.op = "add" =>
            /\ Len(objects') = Len(objects) + 1
            /\ SubSeq(objects', 1, Len(objects)) = objects]_vars

\* a second sphere has been added to a list, and the box of neither is the
\* box of the list
ListBoxIsUnionWitness ==
    /\ call.op = "add"
    /\ Len(objects) = 2
    /\ objects[1].mat = 1
    /\ bounding_box(objects[1]) # bounding_box(objects[2])
    /\ bbox # bounding_box(objects[1])
    /\ bbox # bounding_box(objects[2])

---------------------------------------------------------------------------
(* Hittable::hit on every kind of primitive: a primitive is constructed, and  *)
(* one ray is cast at it under one caller interval.                            *)

MaxReach == 5

\* the base primitives: a sphere, a moving sphere, the three planar shapes with
\* sides of length 4 in the plane z = 0, and a planar whose u and v are parallel
HitBases ==
    {SphereNew(Vec3(0, 0, 0), 3, 1),
     SphereNewMoving(Vec3(0, 0, 0), Vec3(1, 0, 0), 2, 1),
     PlanarNew(Vec3(-2, -2, 0), Vec3(4, 0, 0), Vec3(0, 4, 0), 1, [kind |-> "Quad"]),
     PlanarNew(Vec3(-1, -1, 0), Vec3(4, 0, 0), Vec3(0, 4, 0), 1, [kind |-> "Triangle"]),
     PlanarNew(Vec3(0, 0, 0), Vec3(4, 0, 0), Vec3(0, 4, 0), 1,
               [kind |-> "Circle", radius |-> ONE \div 2]),
     PlanarNew(Vec3(0, 0, 0), Vec3(4, 0, 0), Vec3(2, 0, 0), 1, [kind |-> "Quad"])}

\* positive densities: 1 and 2 scattering events per unit of length
Densities == {1, 2}

\* Translate::new, RotateY::new and ConstantMedium::new over the primitives of S
Decorated(S) ==
    {TranslateNew(p, o) : p \in S, o \in Offsets}
    \cup {RotateYNew(p, a) : p \in S, a \in Angles}
    \cup {ConstantMediumNew(p, d, "tex") : p \in S, d \in Densities}

\* HittableList::default followed by world.add(a) and world.add(b)
ListOf(a, b) ==
    ListAdd(ListAdd(HittableListDefault, bounding_box(a), a), bounding_box(b), b)

HitLists ==
    LET members == {SphereNew(Vec3(0, 0, 0), 3, 1),
                    PlanarNew(Vec3(-2, -2, 0), Vec3(4, 0, 0), Vec3(0, 4, 0), 1,
                              [kind |-> "Quad"]),
                    ConstantMediumNew(SphereNew(Vec3(0, 0, 2), 2, 1), 1, "tex")}
    IN  {ListOf(a, b) : a, b \in members}

HitPrims ==
    HitBases \cup Decorated(HitBases)
    \cup {HittableListDefault} \cup HitLists \cup {BVHFrom(l) : l \in HitLists}
    \cup Decorated(HitLists) \cup Decorated({BVHFrom(l) : l \in HitLists})
    \cup Decorated(Decorated({SphereNew(Vec3(0, 0, 0), 3, 1)}))

HitRays ==
    {Ray(o, d, tm) :
        o \in {Vec3(0, 0, -MaxReach), Vec3(0, 0, 0), Vec3(1, 1, MaxReach),
               Vec3(MaxReach, 0, 1)},
        d \in {Vec3(0, 0, 1), Vec3(0, 0, -2), Vec3(-1, 0, 0), Vec3(1, 0, 1)},
        tm \in {0}}

HitRayIntervals ==
    {Interval(a, b) : a \in {NEG_INFINITY, 0, 3},
                      b \in {2, MaxReach, 2 * MaxReach, INFINITY}}

\* random_double().ln(): the logarithm of a number in [0, 1), on the grid
LnDraws == {NEG_INFINITY, -3, 0}

InitHit ==
    /\ input \in [prim : HitPrims, r : HitRays, ray_t : HitRayIntervals, ln_u : LnDraws]
    /\ objects = HittableListDefault.objects
    /\ bbox = HittableListDefault.bbox
    /\ bvh = None
    /\ call = [op |-> "new"]
    /\ ColorInit
    /\ RenderInit

\* prim.hit(&r, &mut ray_t)
CallHit ==
    /\ call' = [op |-> "hit", ret |-> Hit(input.prim, input.r, input.ray_t, input.ln_u)]
    /\ UNCHANGED <<sceneVars, colorVars, renderVars>>

NextHit == CallHit

SpecHit == InitHit /\ [][NextHit]_vars

---------------------------------------------------------------------------
(* BVHNode::new on a range of a vector of primitives.                         *)

MaxSpan == 4

\* the spheres the vectors are made of, as (centre, radius)
BVHItems ==
    {<<Vec3(0, 0, 0), 1>>, <<Vec3(3, 0, 0), 1>>, <<Vec3(0, 4, 0), 1>>,
     <<Vec3(-2, 1, -3), 1>>, <<Vec3(0, 0, 0), 2>>}

\* the vectors of 1..MaxSpan spheres; the k-th gets the material k of its own
BVHVectors ==
    UNION {{[k \in 1..n |-> SphereNew(f[k][1], f[k][2], k)] : f \in [1..n -> BVHItems]} :
           n \in 1..MaxSpan}

InitBVH ==
    /\ input \in {[objs |-> v, start |-> a, end |-> b] :
                     v \in BVHVectors, a \in 0..MaxSpan, b \in 0..MaxSpan}
    /\ input.start < input.end
    /\ input.end <= Len(input.objs)
    /\ objects = input.objs
    /\ bbox = FoldBox(input.objs, 0, Len(input.objs), EMPTY)
    /\ bvh = None
    /\ call = [op |-> "push"]
    /\ ColorInit
    /\ RenderInit

\* BVHNode::new(&mut objects, start, end): the vector is sorted in place
CallBVHNew ==
    /\ call.op = "push"
    /\ LET built == BVHNew(objects, input.start, input.end)
       IN  /\ bvh' = Some(built.node)
           /\ objects' = built.objects
    /\ call' = [op |-> "BVHNode::new"]
    /\ UNCHANGED <<bbox, input, colorVars, renderVars>>

\* node.depth(0)
CallBVHDepth ==
    /\ call.op = "BVHNode::new"
    /\ call' = [op |-> "depth", ret |-> BVHDepth(Unwrap(bvh), 0)]
    /\ UNCHANGED <<sceneVars, colorVars, renderVars>>

NextBVH == CallBVHNew \/ CallBVHDepth

SpecBVH == InitBVH /\ [][NextBVH]_vars

RECURSIVE LeafObjects(_)
\* the primitives at the leaves below n, from left to right
LeafObjects(n) ==
    IF IsSome(n.left) /\ IsSome(n.right)
    THEN LeafObjects(Unwrap(n.left)) \o LeafObjects(Unwrap(n.right))
    ELSE <<Unwrap(n.object)>>

\* the elements of the sequence s as a set
Elements(s) == {s[k] : k \in 1..Len(s)}

\* the minimum of p's bounding box on the longest axis of the box
MinOnLongest(p, box) == axis_interval(bounding_box(p), longest_axis(box)).min

\* C21: BVHNode::new on [start, end) leaves the vector outside the range as it
\* was and permutes the range; a range of one yields a leaf with that
\* primitive; at every internal node over n primitives the left subtree holds
\* floor(n/2) of them and the right the others, no left primitive's box
\* starts after a right one's on the longest axis of the node's box; the
\* leaves hold the primitives of the range, each once.
BVHSplit ==
    bvh # None =>
        LET node == Unwrap(bvh)
            n == input.end - input.start
            range == (input.start + 1)..input.end
        IN  /\ Len(objects) = Len(input.objs)
            /\ \A k \in 1..Len(objects) : k \notin range => objects[k] = input.objs[k]
            /\ {objects[k] : k \in range} = {input.objs[k] : k \in range}
            /\ n = 1 => IsLeaf(node) /\ node.object = Some(input.objs[input.start + 1])
            /\ n > 1 => IsInternal(node)
            /\ \A m \in Nodes(node) :
                  IsInternal(m) =>
                      LET ls == LeafObjects(Unwrap(m.left))
                          rs == LeafObjects(Unwrap(m.right))
                      IN  /\ Len(ls) = (Len(ls) + Len(rs)) \div 2
                          /\ \A l \in Elements(ls), r \in Elements(rs) :
                                MinOnLongest(l, m.bbox) <= MinOnLongest(r, m.bbox)
            /\ Len(LeafObjects(node)) = n
            /\ Elements(LeafObjects(node)) = {input.objs[k] : k \in range}

\* the range after the first primitive was built and the sort moved a primitive
BVHSplitWitness ==
    /\ bvh # None
    /\ input.start > 0
    /\ input.end - input.start = MaxSpan - 1
    /\ objects # input.objs

---------------------------------------------------------------------------
(* BVHNode::hit one call at a time: call.stack holds the active calls, the    *)
(* innermost last, and call.trace the calls entered and returned so far.       *)

\* the vectors of 1..MaxObjects spheres; the k-th gets the material k of its own
WalkVectors ==
    UNION {{[k \in 1..n |-> SphereNew(f[k][1], f[k][2], k)] :
               f \in [1..n -> SphereCenters \X SphereRadii]} :
           n \in 1..MaxObjects}

InitWalk ==
    /\ input \in {[objs |-> v, r |-> r, ray_t |-> ray_t] :
                     v \in WalkVectors, r \in Rays, ray_t \in RayIntervals}
    /\ objects = input.objs
    /\ bbox = FoldBox(input.objs, 0, Len(input.objs), EMPTY)
    /\ bvh = Some(BVHNew(input.objs, 0, Len(input.objs)).node)
    /\ call = [op |-> "from"]
    /\ ColorInit
    /\ RenderInit

\* the frame of node.hit(r, ray_t) on entry
Frame(node, ray_t) == [node |-> node, ray_t |-> ray_t, pc |-> "entry", left_hit |-> None]

Enter(node, ray_t) == [ev |-> "enter", node |-> node, ray_t |-> ray_t]
Exit(node, ray_t, ret) == [ev |-> "exit", node |-> node, ray_t |-> ray_t, ret |-> ret]

\* the frame f returns ret
Returned(f, ret) == [f EXCEPT !.pc = "return", !.left_hit = ret]

RightIntervalWide(ray_t, left_hit) == ray_t

\* the interval of right.hit: tightened to the left hit's t when there is one
RightInterval(ray_t, left_hit) ==
    IF IsSome(left_hit) THEN Interval(ray_t.min, Unwrap(left_hit).t) ELSE ray_t

\* bvh.hit(&r, &mut ray_t) is called
WalkBegin ==
    /\ call.op = "from"
    /\ call' = [op |-> "BVHNode::hit",
                stack |-> <<Frame(Unwrap(bvh), input.ray_t)>>,
                trace |-> <<Enter(Unwrap(bvh), input.ray_t)>>,
                ret |-> None]
    /\ UNCHANGED <<sceneVars, colorVars, renderVars>>

\* the innermost call tests its box: a miss returns None; a hit calls left.hit
\* at an internal node and returns the primitive's result at a leaf
WalkEnter ==
    /\ call.op = "BVHNode::hit"
    /\ Len(call.stack) > 0
    /\ LET top == call.stack[Len(call.stack)]
           n == top.node
       IN  /\ top.pc = "entry"
           /\ IF ~AABBHit(n.bbox, input.r, top.ray_t)
              THEN call' = [call EXCEPT !.stack[Len(call.stack)] = Returned(top, None)]
              ELSE IF IsSome(n.left) /\ IsSome(n.right)
              THEN call' = [call EXCEPT
                               !.stack = Append([@ EXCEPT ![Len(@)].pc = "left"],
                                                Frame(Unwrap(n.left), top.ray_t)),
                               !.trace = Append(@, Enter(Unwrap(n.left), top.ray_t))]
              ELSE call' = [call EXCEPT
                               !.stack[Len(call.stack)] =
                                   Returned(top, Hit(Unwrap(n.object), input.r, top.ray_t, 0))]
    /\ UNCHANGED <<sceneVars, colorVars, renderVars>>

\* the innermost call returns: to the caller of bvh.hit, or to the node above,
\* which calls right.hit after left.hit and returns after right.hit
WalkReturn ==
    /\ call.op = "BVHNode::hit"
    /\ Len(call.stack) > 0
    /\ LET d == Len(call.stack)
           top == call.stack[d]
           ret == top.left_hit
           trace == Append(call.trace, Exit(top.node, top.ray_t, ret))
       IN  /\ top.pc = "return"
           /\ IF d = 1
              THEN call' = [call EXCEPT !.stack = <<>>, !.trace = trace, !.ret = ret,
                                        !.op = "returned"]
              ELSE LET up == call.stack[d - 1]
                       below == SubSeq(call.stack, 1, d - 2)
                   IN  IF up.pc = "left"
                       THEN LET right_t == RightInterval(up.ray_t, ret)
                            IN  call' = [call EXCEPT
                                   !.stack = below \o
                                       <<[up EXCEPT !.pc = "right", !.left_hit = ret],
                                         Frame(Unwrap(up.node.right), right_t)>>,
                                   !.trace = Append(trace,
                                                    Enter(Unwrap(up.node.right), right_t))]
                       ELSE call' = [call EXCEPT
                                   !.stack = below \o
                                       <<Returned(up, IF IsSome(ret) THEN ret
                                                      ELSE up.left_hit)>>,
                                   !.trace = trace]
    /\ UNCHANGED <<sceneVars, colorVars, renderVars>>

NextWalk == WalkBegin \/ WalkEnter \/ WalkReturn

SpecWalk == InitWalk /\ [][NextWalk]_vars

\* the place in the trace where the call entered at place e returns
ExitOf(e) ==
    CHOOSE x \in (e + 1)..Len(call.trace) :
        /\ call.trace[x].ev = "exit"
        /\ call.trace[x].node = call.trace[e].node

\* C22: in a finished bvh.hit, a call whose ray misses the node's box returns
\* None at once; a leaf returns its primitive's result; an internal node calls
\* left.hit on its interval, then right.hit on the interval tightened to the
\* left hit's t (the same interval when left missed), and returns the right
\* hit when there is one, else the left result.
BVHHitOrder ==
    call.op = "returned" =>
        /\ call.trace[Len(call.trace)].ret = call.ret
        /\ \A e \in 1..Len(call.trace) :
              call.trace[e].ev = "enter" =>
                  LET n == call.trace[e].node
                      t == call.trace[e].ray_t
                      at(k) == call.trace[k]
                  IN  IF ~AABBHit(n.bbox, input.r, t)
                      THEN at(e + 1) = Exit(n, t, None)
                      ELSE IF IsLeaf(n)
                      THEN at(e + 1) = Exit(n, t, Hit(Unwrap(n.object), input.r, t, 0))
                      ELSE LET xl == ExitOf(e + 1)
                               l == at(xl).ret
                               xr == ExitOf(xl + 1)
                               r == at(xr).ret
                           IN  /\ at(e + 1) = Enter(Unwrap(n.left), t)
                               /\ at(xl + 1) =
                                     Enter(Unwrap(n.right),
                                           IF IsSome(l) THEN Interval(t.min, Unwrap(l).t)
                                           ELSE t)
                               /\ at(xr + 1) = Exit(n, t, IF IsSome(r) THEN r ELSE l)

\* a three-leaf tree was walked: the left subtree hit, and the right subtree,
\* asked on the tightened interval, hit nearer
BVHHitOrderWitness ==
    /\ call.op = "returned"
    /\ Len(objects) = 3
    /\ \E e \in 1..Len(call.trace) :
          /\ call.trace[e].ev = "enter"
          /\ call.trace[e].node = Unwrap(Unwrap(bvh).right)
          /\ call.trace[e].ray_t # input.ray_t
    /\ IsSome(call.ret)
    /\ call.ret = Hit(Unwrap(Unwrap(bvh).right), input.r, input.ray_t, 0)

---------------------------------------------------------------------------
(* Planar::new, then Planar::hit with rays through the points of a grid       *)
(* around the primitive.                                                       *)

MaxPoint == 3

\* q, u and v: a square of side 4, the same square moved, and a parallelogram
PlanarFrames ==
    {<<Vec3(0, 0, 0), Vec3(4, 0, 0), Vec3(0, 4, 0)>>,
     <<Vec3(-1, 1, 0), Vec3(4, 0, 0), Vec3(0, 4, 0)>>,
     <<Vec3(0, 0, 0), Vec3(4, 0, 0), Vec3(4, 4, 0)>>}

PlanarShapes ==
    {[kind |-> "Quad"], [kind |-> "Triangle"]}
    \cup {[kind |-> "Circle", radius |-> radius] : radius \in {ONE \div 2, ONE, 2 * ONE}}

\* rays from the grid three steps above the plane: straight down, slanted,
\* parallel to the plane and away from it
PlanarRays ==
    {Ray(Vec3(x, y, 3), d, 0) :
        x \in (0 - MaxPoint)..MaxPoint, y \in (0 - MaxPoint)..MaxPoint,
        d \in {Vec3(0, 0, -1), Vec3(1, 0, -1), Vec3(1, 0, 0), Vec3(0, 0, 1)}}

PlanarIntervals == {Interval(0, INFINITY), Interval(0, 3), Interval(0, 2)}

InitPlanar ==
    /\ input \in [frame : PlanarFrames, shape : PlanarShapes, r : PlanarRays,
                  ray_t : PlanarIntervals]
    /\ objects = HittableListDefault.objects
    /\ bbox = HittableListDefault.bbox
    /\ bvh = None
    /\ call = [op |-> "default"]
    /\ ColorInit
    /\ RenderInit

\* world.add(Arc::new(Planar::new(q, u, v, mat, shape)))
AddPlanar ==
    /\ Len(objects) = 0
    /\ LET pl == PlanarNew(input.frame[1], input.frame[2], input.frame[3], 1, input.shape)
           l == ListAdd(World, bounding_box(pl), pl)
       IN  /\ objects' = l.objects
           /\ bbox' = l.bbox
    /\ call' = [op |-> "add"]
    /\ UNCHANGED <<bvh, input, colorVars, renderVars>>

\* objects[0].hit(&r, &mut ray_t)
CallPlanarHit ==
    /\ Len(objects) = 1
    /\ call' = [op |-> "Planar::hit", ret |-> PlanarHit(objects[1], input.r, input.ray_t)]
    /\ UNCHANGED <<sceneVars, colorVars, renderVars>>

NextPlanar == AddPlanar \/ CallPlanarHit

SpecPlanar == InitPlanar /\ [][NextPlanar]_vars

\* the ray crosses the plane z = 0 of the primitive at a parameter inside the interval
CrossesPlane ==
    /\ input.r.dir.z # 0
    /\ contains(input.ray_t, FDiv(0 - input.r.orig.z, input.r.dir.z))

\* the point where the ray crosses the plane z = 0
Crossing == At(input.r, FDiv(0 - input.r.orig.z, input.r.dir.z))

\* the fixed-point numbers the plane coordinates are looked for in: the quarters
Quarters == {k * (ONE \div 4) : k \in (0 - 4 * MaxPoint)..(4 * MaxPoint)}

\* (a, b) are the plane coordinates of the point p: p = q + a * u + b * v
IsPlaneCoordinates(a, b, p, pl) ==
    VScale(ONE, VSub(p, pl.q)) = VAdd(VScale(a, pl.u), VScale(b, pl.v))

\* C23: when the ray crosses the plane inside the caller's interval, at the
\* plane coordinates (alpha, beta), Planar::hit reports a hit exactly when
\* 0 <= alpha <= 1 and 0 <= beta <= 1 (quad), alpha^2 + beta^2 <= radius^2
\* (disk), alpha > 0, beta > 0 and alpha + beta < 1 (triangle), and the
\* record's (u, v) is (alpha, beta).
PlanarAcceptance ==
    call.op = "Planar::hit" /\ CrossesPlane =>
        \E alpha, beta \in Quarters :
            /\ IsPlaneCoordinates(alpha, beta, Crossing, objects[1])
            /\ IsSome(call.ret) <=>
                  CASE input.shape.kind = "Quad" ->
                          0 <= alpha /\ alpha <= ONE /\ 0 <= beta /\ beta <= ONE
                    [] input.shape.kind = "Circle" ->
                          alpha * alpha + beta * beta
                              <= input.shape.radius * input.shape.radius
                    [] input.shape.kind = "Triangle" ->
                          alpha > 0 /\ beta > 0 /\ alpha + beta < ONE
            /\ IsSome(call.ret) =>
                  Unwrap(call.ret).u = alpha /\ Unwrap(call.ret).v = beta

\* a quad is hit on its edge alpha = 1
PlanarAcceptanceWitness ==
    /\ call.op = "Planar::hit"
    /\ CrossesPlane
    /\ input.shape.kind = "Quad"
    /\ IsSome(call.ret)
    /\ Unwrap(call.ret).u = ONE
    /\ Unwrap(call.ret).v = ONE \div 2

\* C30: every point at which Planar::hit reports an intersection lies inside
\* the box the primitive's bounding_box() returned when it was added.
PlanarHitInsideBox ==
    call.op = "Planar::hit" /\ IsSome(call.ret) =>
        \A axis \in 0..2 :
            contains(axis_interval(bbox, axis), Idx(Unwrap(call.ret).p, axis))

---------------------------------------------------------------------------
(* Material::scatter and Material::emitted, further properties.               *)

\* the reflected direction before the fuzz is added
MetalReflected == unit_vector(reflect(input.r_in.dir, input.rec.normal))

\* C24: whatever fuzz a Metal is configured with, the scattered direction is
\* the reflected unit vector plus f times the random unit vector for a factor
\* f with 0 <= f <= 1.
MetalFuzzClamped ==
    call.op = "scatter" /\ input.mat.kind = "Metal" /\ IsSome(call.ret) =>
        \E f \in 0..ONE :
            Unwrap(call.ret).ray.dir = VAdd(MetalReflected, FixScale(f, call.rnd.unit))

\* C25: of the variants of Material, DiffuseLight never scatters, Metal does
\* not scatter exactly when the perturbed reflected direction d' has
\* dot(d', normal) <= 0, Lambertian and Dielectric always scatter, and every
\* scattered ray starts at the hit point and carries the time of the
\* incoming ray.
ScatterNoneCases ==
    call.op = "scatter" /\ input.mat.kind \in MaterialKinds =>
        /\ input.mat.kind = "DiffuseLight" => call.ret = None
        /\ input.mat.kind = "Metal" =>
              LET d == VAdd(MetalReflected,
                            FixScale(FMin(input.mat.fuzz, ONE), call.rnd.unit))
              IN  call.ret = None <=> dot(d, input.rec.normal) <= 0
        /\ input.mat.kind \in {"Lambertian", "Dielectric"} => IsSome(call.ret)
        /\ IsSome(call.ret) =>
              /\ Unwrap(call.ret).ray.orig = input.rec.p
              /\ Unwrap(call.ret).ray.tm = input.r_in.tm

\* a fuzzy metal was hit at a grazing angle and the perturbed direction lies
\* in the surface: no continuation
ScatterNoneCasesWitness ==
    /\ call.op = "scatter"
    /\ input.mat.kind = "Metal"
    /\ input.mat.fuzz > 0
    /\ input.r_in.tm = 1
    /\ call.ret = None
    /\ dot(VAdd(MetalReflected, FixScale(FMin(input.mat.fuzz, ONE), call.rnd.unit)),
           input.rec.normal) = 0

\* C28: the phase function ConstantMedium::new attaches is a variant of
\* Material; its scatter returns a ray from the hit point with the texture
\* value at the hit as attenuation, and its emission is zero.
IsotropicScatters ==
    input.mat.kind = "Isotropic" =>
        /\ call.op = "scatter" =>
              /\ input.mat.kind \in MaterialKinds
              /\ IsSome(call.ret)
              /\ Unwrap(call.ret).ray.orig = input.rec.p
              /\ Unwrap(call.ret).attenuation =
                    TexValue(input.mat.tex, input.rec.u, input.rec.v, input.rec.p)
        /\ call.op = "emitted" => call.ret = Vec3(0, 0, 0)

---------------------------------------------------------------------------
(* ConstantMedium::hit among the calls of SpecHit.                             *)

\* the boundary's first hit on the unbounded interval
MediumEntry == Hit(input.prim.boundary, input.r, IUniverse, input.ln_u)

\* the boundary's hit after the entry
MediumExit ==
    Hit(input.prim.boundary, input.r,
        Interval(FAdd(Unwrap(MediumEntry).t, delta), INFINITY), input.ln_u)

\* entry and exit clipped to the caller's interval
ClippedEntry == FMax(Unwrap(MediumEntry).t, input.ray_t.min)
ClippedExit == FMin(Unwrap(MediumExit).t, input.ray_t.max)

\* the free-flight distance: -ln(u) / density
FreeFlight == FDiv(FNeg(input.ln_u), input.prim.density)

\* ConstantMedium::hit returns no hit in the three cases, and otherwise a hit
\* at entry + d / |direction|, for the given entry
MediumHitFrom(entry) ==
    IF \/ ~IsSome(MediumEntry)
       \/ ~IsSome(MediumExit)
       \/ FGe(ClippedEntry, ClippedExit)
       \/ FGt(FreeFlight, FMul(FSub(ClippedExit, entry), length(input.r.dir)))
    THEN call.ret = None
    ELSE /\ IsSome(call.ret)
         /\ Unwrap(call.ret).t = FAdd(entry, FDiv(FreeFlight, length(input.r.dir)))
         /\ FLe(entry, Unwrap(call.ret).t)
         /\ FLe(Unwrap(call.ret).t, ClippedExit)

\* C26 as claimed: the entry the free flight starts from is the boundary entry
\* clipped to the caller's interval.
MediumHitClipped ==
    call.op = "hit" /\ input.prim.kind = "ConstantMedium" =>
        MediumHitFrom(IF IsSome(MediumEntry) THEN ClippedEntry ELSE 0)

\* C26, amended: the entry the free flight starts from is the boundary entry
\* clipped to the caller's interval and then raised to 0 when it is negative.
MediumHitClippedAtZero ==
    call.op = "hit" /\ input.prim.kind = "ConstantMedium" =>
        MediumHitFrom(IF IsSome(MediumEntry) THEN FMax(ClippedEntry, 0) ELSE 0)

\* a ray that starts inside the medium, asked on an interval that reaches
\* behind the origin, scatters at a positive distance from the origin
MediumHitClippedAtZeroWitness ==
    /\ call.op = "hit"
    /\ input.prim.kind = "ConstantMedium"
    /\ IsSome(call.ret)
    /\ IsSome(MediumEntry)
    /\ ClippedEntry < 0
    /\ Unwrap(call.ret).t > 0
    /\ Unwrap(call.ret).t < ClippedExit

(***************************************************************************)
(* Camera::render, the rays of the samples of a pixel                      *)
(***************************************************************************)

\* the sample whose get_ray call produced the ray that sample s is traced on
RayOf(s) == samples[s].ray.first

\* C27: every sample of a pixel that has been given a ray is traced on a ray
\* that one get_ray call generated for that sample alone, with its own jitter
\* and its own time: no two samples of the pixel share a get_ray call.
PerSampleRays ==
    scan.pc = "samples" =>
        \A s \in 1..Len(samples) :
            samples[s].state # "todo" => RayOf(s) = s

(***************************************************************************)
(* BVHNode::new one call at a time: call.stack holds the active calls of   *)
(* the recursion, the innermost last, and call.ret the node the last       *)
(* finished call returned.                                                 *)
(***************************************************************************)

\* the calls the stack of the thread has room for
MaxStack == 4

\* the spheres the vectors are made of, as (centre, radius)
BuildItems == {<<Vec3(3, 0, 0), 1>>, <<Vec3(0, 4, 0), 2>>}

\* the vectors of 0..MaxSpan spheres; the k-th gets the material k of its own
BuildVectors ==
    UNION {{[k \in 1..n |-> SphereNew(f[k][1], f[k][2], k)] : f \in [1..n -> BuildItems]} :
           n \in 0..MaxSpan}

\* an active call of BVHNode::new(objects, start, end); at is "enter" before
\* the match, "left" while Self::new(objects, start, mid) runs and "right"
\* while Self::new(objects, mid, end) runs
NewFrame(start, end) ==
    [start |-> start, end |-> end, at |-> "enter", bbox |-> EMPTY, left |-> None]

InitBuild ==
    /\ input \in {[objs |-> v, start |-> a, end |-> b] :
                     v \in BuildVectors, a \in 0..MaxSpan, b \in 0..MaxSpan}
    /\ input.start <= input.end
    /\ input.end <= Len(input.objs)
    /\ objects = input.objs
    /\ bbox = FoldBox(input.objs, 0, Len(input.objs), EMPTY)
    /\ bvh = None
    /\ call = [op |-> "push"]
    /\ ColorInit
    /\ RenderInit

\* BVHNode::new(&mut objects, start, end) is called
BuildBegin ==
    /\ call.op = "push"
    /\ call' = [op |-> "BVHNode::new", stack |-> <<NewFrame(input.start, input.end)>>,
                ret |-> None]
    /\ UNCHANGED <<objects, bbox, bvh, input, colorVars, renderVars>>

\* the frame of the innermost call
Top == call.stack[Len(call.stack)]

\* the stack with its innermost frame replaced by f
WithTop(f) == [call.stack EXCEPT ![Len(call.stack)] = f]

\* the stack without its innermost frame
Popped == SubSeq(call.stack, 1, Len(call.stack) - 1)

Building == call.op = "BVHNode::new" /\ call.stack # <<>>

\* match object_span { 1 => Self { object: Some(objects[start].clone()), .. } }
BuildLeaf ==
    /\ Building
    /\ Top.at = "enter"
    /\ Top.end - Top.start = 1
    /\ call' = [call EXCEPT
                   !.stack = Popped,
                   !.ret = Some(Leaf(objects[Top.start + 1],
                                     FoldBox(objects, Top.start, Top.end, EMPTY)))]
    /\ UNCHANGED <<objects, bbox, bvh, input, colorVars, renderVars>>

\* match object_span { _ => sort_by, mid, Self::new(objects, start, mid) }
BuildSplit ==
    /\ Building
    /\ Top.at = "enter"
    /\ Top.end - Top.start # 1
    /\ Len(call.stack) < MaxStack
    /\ LET box == FoldBox(objects, Top.start, Top.end, EMPTY)
           object_span == Top.end - Top.start
           mid == Top.start + object_span \div 2
       IN  /\ objects' = SortRange(objects, Top.start, Top.end, longest_axis(box))
           /\ call' = [call EXCEPT
                          !.stack = Append(WithTop([Top EXCEPT !.at = "left", !.bbox = box]),
                                           NewFrame(Top.start, mid))]
    /\ UNCHANGED <<bbox, bvh, input, colorVars, renderVars>>

\* Self::new(objects, start, mid) is called and the stack has no room for it:
\* the thread overflows its stack and the process is aborted
BuildOverflow ==
    /\ Building
    /\ Top.at = "enter"
    /\ Top.end - Top.start # 1
    /\ Len(call.stack) >= MaxStack
    /\ call' = [op |-> "stack overflow"]
    /\ UNCHANGED <<objects, bbox, bvh, input, colorVars, renderVars>>

\* let left = Arc::new(..) has its value: Self::new(objects, mid, end)
BuildRight ==
    /\ Building
    /\ Top.at = "left"
    /\ call.ret # None
    /\ LET mid == Top.start + (Top.end - Top.start) \div 2
       IN  call' = [call EXCEPT
                       !.stack = Append(WithTop([Top EXCEPT !.at = "right",
                                                            !.left = call.ret]),
                                        NewFrame(mid, Top.end)),
                       !.ret = None]
    /\ UNCHANGED <<objects, bbox, bvh, input, colorVars, renderVars>>

\* let right = Arc::new(..) has its value: Self { left, right, object: None, bbox }
BuildInternal ==
    /\ Building
    /\ Top.at = "right"
    /\ call.ret # None
    /\ call' = [call EXCEPT
                   !.stack = Popped,
                   !.ret = Some(Internal(Unwrap(Top.left), Unwrap(call.ret), Top.bbox))]
    /\ UNCHANGED <<objects, bbox, bvh, input, colorVars, renderVars>>

\* the outermost call has returned its node
BuildEnd ==
    /\ call.op = "BVHNode::new"
    /\ call.stack = <<>>
    /\ bvh' = call.ret
    /\ call' = [op |-> "returned"]
    /\ UNCHANGED <<objects, bbox, input, colorVars, renderVars>>

NextBuild ==
    \/ BuildBegin
    \/ BuildLeaf
    \/ BuildSplit
    \/ BuildOverflow
    \/ BuildRight
    \/ BuildInternal
    \/ BuildEnd

SpecBuild == InitBuild /\ [][NextBuild]_vars

RECURSIVE LeafCount(_)
\* the leaves at and below n
LeafCount(n) ==
    IF IsSome(n.left) /\ IsSome(n.right)
    THEN LeafCount(Unwrap(n.left)) + LeafCount(Unwrap(n.right))
    ELSE 1

RECURSIVE InternalCount(_)
\* the nodes with two children at and below n
InternalCount(n) ==
    IF IsSome(n.left) /\ IsSome(n.right)
    THEN 1 + InternalCount(Unwrap(n.left)) + InternalCount(Unwrap(n.right))
    ELSE 0

\* C29: BVHNode::new runs to its return on every range start <= end <= len,
\* the empty range (and so BVHNode::from of a list with no objects) included:
\* no call exhausts the stack, the call returns a node, and the tree returned
\* for n >= 1 primitives has n leaves and n - 1 internal nodes.
BuildTerminates ==
    /\ call.op # "stack overflow"
    /\ call.op = "returned" =>
          /\ bvh # None
          /\ input.end - input.start >= 1 =>
                /\ LeafCount(Unwrap(bvh)) = input.end - input.start
                /\ InternalCount(Unwrap(bvh)) = input.end - input.start - 1

===========================================================================
